---- MODULE Spec2Model ----
(***************************************************************************)
(* A model of rtpeaks' real-time peak/trough detector                      *)
(* (src/rtpeaks/rtp.py): the detection loop rtp_finder, the classifier     *)
(* peak_or_trough, the threshold estimator gen_thresh, the extrema finder  *)
(* get_extrema, and the processes and queues of class RTP around them.     *)
(*                                                                         *)
(* Numbers.  Timestamps are integer milliseconds and amplitudes integers.  *)
(* The float64 thresholds of gen_thresh are kept in fixed point, in units  *)
(* of 1/Prec, rounded down.  A window row is <<time, amplitude>> and a     *)
(* last_found row is <<class, time, amplitude>> with class 1 (peak),       *)
(* 0 (trough) or -1 (dummy seed).  Array indices keep Python's 0-based     *)
(* values; element i of an array is element i + 1 of the sequence.         *)
(***************************************************************************)
EXTENDS Integers, Sequences, FiniteSets, TLC

\* Resolution of the fixed-point thresholds: values are in units of 1/Prec.
Prec == 2 * 5

\* gen_thresh trusts its variance estimate above this many records
MinRecords == 20

\* "reset to baseline if it's been more than 10 seconds"
ResetAfter == 10000

\* avgrate when the computed lookback is negative
DefaultLookback == 5

\* "len(last_found) > 7": the starter datapoints are dropped above this
SeedLimit == 7

\* samplerate, the default detection rate of RTP (Hz)
SampleRate == 200

\* samples appended to the window in one run
MaxSamples == 6

\* pauses longer than the reset time in one run
MaxPauses == 1

\* stdev = thresh / 2 (rtp.py 467), the deviation used at or below
\* MinRecords records
StdevFewRecords(thresh) == thresh \div 2

----------------------------------------------------------------------------
(* Arithmetic helpers standing for numpy operations.                       *)

Abs(x) == IF x < 0 THEN -x ELSE x

Min2(a, b) == IF a < b THEN a ELSE b

Max2(a, b) == IF a > b THEN a ELSE b

\* the sum of s[lo..hi], by halves
RECURSIVE SumRange(_, _, _)
SumRange(s, lo, hi) ==
    IF lo > hi THEN 0
    ELSE IF lo = hi THEN s[lo]
    ELSE SumRange(s, lo, (lo + hi) \div 2)
             + SumRange(s, (lo + hi) \div 2 + 1, hi)

SumSeq(s) == SumRange(s, 1, Len(s))

\* np.sign
Sign(x) == IF x > 0 THEN 1 ELSE IF x < 0 THEN -1 ELSE 0

\* the differences taken the other way round
DiffBackward(s) == [i \in 1..(Len(s) - 1) |-> s[i] - s[i + 1]]

\* np.diff of a sequence
Diff(s) == [i \in 1..(Len(s) - 1) |-> s[i + 1] - s[i]]

\* np.sqrt on a non-negative fixed-point square, rounded down
RECURSIVE SqrtSearch(_, _, _)
SqrtSearch(x, lo, hi) ==
    IF lo >= hi THEN lo
    ELSE LET mid == (lo + hi + 1) \div 2
         IN  IF mid * mid <= x THEN SqrtSearch(x, mid, hi)
             ELSE SqrtSearch(x, lo, mid - 1)

ISqrt(x) == SqrtSearch(x, 0, Min2(x, 46340))

\* Python's a[start:stop] for 0-based, possibly negative, start and stop
PyIndex(k, n) == IF k < 0 THEN Max2(k + n, 0) ELSE Min2(k, n)

PySlice(a, start, stop) ==
    LET lo == PyIndex(start, Len(a))
        hi == PyIndex(stop, Len(a))
    IN  IF lo >= hi THEN <<>> ELSE SubSeq(a, lo + 1, hi)

\* a[-size:] for size >= 1: the last `size` elements
LastN(a, size) == SubSeq(a, Len(a) - size + 1, Len(a))

\* the sub-sequence of the elements of s that satisfy Test
SelectSeqIdx(s, keep) ==
    LET F[i \in 0..Len(s)] ==
            IF i = 0 THEN <<>>
            ELSE IF i \in keep THEN Append(F[i - 1], s[i]) ELSE F[i - 1]
    IN  F[Len(s)]

----------------------------------------------------------------------------
(* normalize (rtp.py 511-526).  The result is the centred data multiplied  *)
(* by the positive factor n (and, where the code divides by the standard   *)
(* deviation, by n * std): every use in get_extrema depends only on the    *)
(* signs of the values and of their differences.  Both branches of the     *)
(* code (zero deviation or not) centre the data on its mean.               *)
normalize(data) ==
    [i \in 1..Len(data) |-> Len(data) * data[i] - SumSeq(data)]

(* The loop "fix flat peaks" of get_extrema (rtp.py 501-503), for the     *)
(* 0-based position idx of a zero of trend.  The position read is          *)
(* min(idx + 1, trend.size) - 1, which is idx itself: no turn of the loop  *)
(* reads what another turn wrote, and the loop is a map over the zeros.    *)
FlatSign(trend, idx) ==
    IF trend[(Min2(idx + 1, Len(trend)) - 1) + 1] >= 0 THEN 1 ELSE -1

FixFlat(trend) ==
    [k \in 1..Len(trend) |->
        IF trend[k] = 0 THEN FlatSign(trend, k - 1) ELSE trend[k]]

\* an extrema finder that takes every index for an extremum
get_extrema_any(data, peaks) == 0..(Len(data) - 1)

\* an extrema finder with no restriction on the height
get_extrema_unrestricted(data, peaks) ==
    LET nd    == normalize(data)
        trend == [i \in 1..(Len(nd) - 1) |-> Sign(nd[i + 1] - nd[i])]
        dd    == Diff(FixFlat(trend))
    IN  IF peaks THEN {i \in 1..Len(dd) : dd[i] = -2}
        ELSE {i \in 1..Len(dd) : dd[i] = 2}

\* an extrema finder that returns the positions of the sign changes in the
\* differences, not shifted by one to positions of the data
get_extrema_unshifted(data, peaks) ==
    LET nd    == normalize(data)
        Indx  == IF peaks THEN {i \in 0..(Len(nd) - 1) : nd[i + 1] > 0}
                 ELSE {i \in 0..(Len(nd) - 1) : nd[i + 1] < 0}
        trend == [i \in 1..(Len(nd) - 1) |-> Sign(nd[i + 1] - nd[i])]
        dd    == Diff(FixFlat(trend))
        idx   == IF peaks THEN {i - 1 : i \in {j \in 1..Len(dd) : dd[j] = -2}}
                 ELSE {i - 1 : i \in {j \in 1..Len(dd) : dd[j] = 2}}
    IN  Indx \cap idx

(* get_extrema(data, peaks, thresh = 0) (rtp.py 473-508): the set of       *)
(* 0-based indices returned.  With thresh = 0 the height restriction       *)
(* data > data.max() * 0 keeps the values above the window mean (below it  *)
(* for troughs).                                                           *)
get_extrema(data, peaks) ==
    LET nd    == normalize(data)
        Indx  == IF peaks THEN {i \in 0..(Len(nd) - 1) : nd[i + 1] > 0}
                 ELSE {i \in 0..(Len(nd) - 1) : nd[i + 1] < 0}
        trend == [i \in 1..(Len(nd) - 1) |-> Sign(nd[i + 1] - nd[i])]
        fixed == FixFlat(trend)
        dd    == Diff(fixed)
        idx   == IF peaks THEN {i \in 1..Len(dd) : dd[i] = -2}
                 ELSE {i \in 1..Len(dd) : dd[i] = 2}
    IN  Indx \cap idx

\* peaks[-1] of a non-empty index set (np.intersect1d sorts ascending)
LastIdx(S) == CHOOSE i \in S : \A j \in S : j <= i

----------------------------------------------------------------------------
(* gen_thresh (rtp.py 425-470).                                            *)

\* last_found[last_found[:, 0] == cls, col]; col is 2 (time) or 3 (height)
ClassCol(last_found, cls, col) ==
    LET F[i \in 0..Len(last_found)] ==
            IF i = 0 THEN <<>>
            ELSE IF last_found[i][1] = cls
                 THEN Append(F[i - 1], last_found[i][col]) ELSE F[i - 1]
    IN  F[Len(last_found)]

(* dist (rtp.py 448-452): the last min(#peaks, #troughs) peak values minus *)
(* the trough values, index for index.  With size 0 the slices [-0:] are   *)
(* the whole arrays: the subtraction raises unless it yields an empty      *)
(* array, and np.average raises on the empty array; Dist is then <<>>.     *)
Dist(last_found, col) ==
    LET peaks   == ClassCol(last_found, 1, col)
        troughs == ClassCol(last_found, 0, col)
        size    == Min2(Len(peaks), Len(troughs))
    IN  IF size = 0 THEN <<>>
        ELSE [i \in 1..size |-> LastN(peaks, size)[i] - LastN(troughs, size)[i]]

(* Outlier rejection (rtp.py 455-457): keep d with                         *)
(* mean - 3 std <= d <= mean + 3 std, that is (n d - S)^2 <= 9 (n Q - S^2) *)
(* with S the sum and Q the sum of squares of dist.                        *)
WithinThreeStd(d, n, S, Q) ==
    (((n * d - S) * (n * d - S)) + 8) \div 9 <= n * Q - S * S

Squares(x) == [i \in 1..Len(x) |-> x[i] * x[i]]

InliersOf(dist, S, Q) ==
    SelectSeqIdx(dist, {i \in 1..Len(dist) : WithinThreeStd(dist[i], Len(dist), S, Q)})

Inliers(dist) == InliersOf(dist, SumSeq(dist), SumSeq(Squares(dist)))

(* np.linspace(1, 10, n) multiplied by n - 1 (by 1 for n = 1): the weights *)
(* 1, ..., 10 of the oldest to the newest distance.                        *)
Weights(n) ==
    IF n = 1 THEN <<1>> ELSE [i \in 1..n |-> (n - 1) + 9 * (i - 1)]

\* np.average(x, weights = w), rounded down
WAverage(x, w) ==
    SumSeq([i \in 1..Len(x) |-> w[i] * x[i]]) \div SumSeq(w)

\* the distances in fixed point
Scaled(dist) == [i \in 1..Len(dist) |-> dist[i] * Prec]

\* (dist - thresh)**2
SqDev(dist, thresh) ==
    [i \in 1..Len(dist) |->
        (dist[i] * Prec - thresh) * (dist[i] * Prec - thresh)]

(* stdev above MinRecords records (rtp.py 463-465): the weighted variance  *)
(* times n, over n - 1, its root times 2.5                                 *)
StdevManyRecords(dist, thresh) ==
    (ISqrt((WAverage(SqDev(dist, thresh), Weights(Len(dist))) * Len(dist))
              \div (Len(dist) - 1)) * 5) \div 2

\* a gen_thresh that trusts its variance estimate from MinRecords records on
RowOfAtLeast(dist, thresh, rows) ==
    IF rows >= MinRecords
    THEN IF Len(dist) = 1
         THEN [raised |-> FALSE, nan |-> TRUE, avg |-> Abs(thresh), std |-> 0]
         ELSE [raised |-> FALSE, nan |-> FALSE, avg |-> Abs(thresh),
               std |-> StdevManyRecords(dist, thresh)]
    ELSE [raised |-> FALSE, nan |-> FALSE, avg |-> Abs(thresh),
          std |-> StdevFewRecords(thresh)]

(* rtp.py 462-468: one row [raised, nan, avg, std] of the output, from     *)
(* the distances kept, their weighted average and last_found.shape[0].     *)
RowOf(dist, thresh, rows) ==
    IF rows > MinRecords
    THEN IF Len(dist) = 1
         THEN [raised |-> FALSE, nan |-> TRUE, avg |-> Abs(thresh), std |-> 0]
         ELSE [raised |-> FALSE, nan |-> FALSE, avg |-> Abs(thresh),
               std |-> StdevManyRecords(dist, thresh)]
    ELSE [raised |-> FALSE, nan |-> FALSE, avg |-> Abs(thresh),
          std |-> StdevFewRecords(thresh)]

\* rtp.py 459-461: np.average raises on an empty dist
Estimate(dist, rows) ==
    IF dist = <<>>
    THEN [raised |-> TRUE, nan |-> FALSE, avg |-> 0, std |-> 0]
    ELSE RowOf(dist, WAverage(Scaled(dist), Weights(Len(dist))), rows)

\* one turn of "for col in [1, 2]" (rtp.py 444-468)
ColThresh(last_found, col) ==
    Estimate(Inliers(Dist(last_found, col)), Len(last_found))

Combine(t, h) ==
    [raised |-> t.raised \/ h.raised,
     nan    |-> t.nan \/ h.nan,
     output |-> <<<<t.avg, t.std>>, <<h.avg, h.std>>>>]

(* gen_thresh(last_found): `raised` when the call raises, `nan` when a     *)
(* standard deviation is NaN, and output = <<<<avg time, std time>>,       *)
(* <<avg height, std height>>>> in fixed point.                            *)
gen_thresh(last_found) ==
    Combine(ColThresh(last_found, 2), ColThresh(last_found, 3))

\* last_found[:-1]
AllButLast(last_found) == SubSeq(last_found, 1, Len(last_found) - 1)

----------------------------------------------------------------------------
(* peak_or_trough (rtp.py 359-422).  `thresh` is the 2 x 2 output of       *)
(* gen_thresh; fs is the sampling time st that rtp_finder passes.          *)

\* divide > 1 (rtp.py 387-389): x / 0 is inf for x > 0 and nan or -inf
\* otherwise, and neither of these is > 1
DivideAboveOne(elapsed, bound) ==
    IF bound = 0 THEN elapsed > 0
    ELSE IF bound > 0 THEN elapsed * Prec > bound
    ELSE elapsed * Prec < bound

\* hdiff (rtp.py 392): (avg height - std height) / divide
Hdiff(signal, last_found, thresh) ==
    LET elapsed == signal[Len(signal)][1] - last_found[Len(last_found)][2]
        bound   == thresh[1][1] + thresh[1][2]
        h       == thresh[2][1] - thresh[2][2]
    IN  IF ~DivideAboveOne(elapsed, bound) THEN h
        ELSE IF bound = 0 THEN 0
        ELSE IF bound > 0 THEN (h * bound) \div (elapsed * Prec)
        ELSE (h * (-bound)) \div ((-elapsed) * Prec)

\* tdiff (rtp.py 391)
Tdiff(thresh) == thresh[1][1] - thresh[1][2]

\* a lookback that is 5 whenever it would not be positive
AvgrateNonPositive(thresh, fs) ==
    LET avgrate == Tdiff(thresh) \div (fs * Prec)
    IN  IF avgrate <= 0 THEN DefaultLookback ELSE avgrate

\* avgrate (rtp.py 395-396)
Avgrate(thresh, fs) ==
    LET avgrate == Tdiff(thresh) \div (fs * Prec)
    IN  IF avgrate < 0 THEN DefaultLookback ELSE avgrate

\* signal[:, 1]
Heights(signal) == [i \in 1..Len(signal) |-> signal[i][2]]

\* a classifier that looks for a peak whatever was found last
LookForPeakAlways(last_found) == TRUE

\* "if we're looking for a peak" / "... a trough" (rtp.py 398, 410)
LookForPeak(last_found) == last_found[Len(last_found)][1] # 1

\* a classifier that looks for a trough whatever was found last
LookForTroughAlways(last_found) == TRUE

LookForTrough(last_found) == last_found[Len(last_found)][1] # 0

\* the tests of rtp.py 403-407 on the last peak p
PeakOK(signal, last_found, thresh, fs, p) ==
    LET back == PySlice(Heights(signal), p - Avgrate(thresh, fs), p)
        max_ == \A k \in 1..Len(back) : signal[p + 1][2] >= back[k]
        sh   == signal[p + 1][2] - last_found[Len(last_found)][3]
        rh   == signal[p + 1][1] - last_found[Len(last_found)][2]
    IN  /\ sh * Prec > Hdiff(signal, last_found, thresh)
        /\ rh * Prec > Tdiff(thresh)
        /\ max_

\* the tests of rtp.py 415-419 on the last trough t
TroughOK(signal, last_found, thresh, fs, t) ==
    LET back == PySlice(Heights(signal), t - Avgrate(thresh, fs), t)
        min_ == \A k \in 1..Len(back) : signal[t + 1][2] <= back[k]
        sh   == signal[t + 1][2] - last_found[Len(last_found)][3]
        rh   == signal[t + 1][1] - last_found[Len(last_found)][2]
    IN  /\ sh * Prec < -Hdiff(signal, last_found, thresh)
        /\ rh * Prec > Tdiff(thresh)
        /\ min_

(* The pair returned: peak and trough are <<>> for None and <<index>>      *)
(* otherwise.                                                              *)
peak_or_trough(signal, last_found, thresh, fs) ==
    LET peaks   == get_extrema(Heights(signal), TRUE)
        troughs == get_extrema(Heights(signal), FALSE)
    IN  IF /\ LookForPeak(last_found)
           /\ peaks # {}
           /\ PeakOK(signal, last_found, thresh, fs, LastIdx(peaks))
        THEN [peak |-> <<LastIdx(peaks)>>, trough |-> <<>>]
        ELSE IF /\ LookForTrough(last_found)
                /\ troughs # {}
                /\ TroughOK(signal, last_found, thresh, fs, LastIdx(troughs))
        THEN [peak |-> <<>>, trough |-> <<LastIdx(troughs)>>]
        ELSE [peak |-> <<>>, trough |-> <<>>]

----------------------------------------------------------------------------
(* get_baseline (rtp.py 205-263).  The batch peak finder (peakdet) and the *)
(* baseline file are outside the repository: `pf` is what PeakFinder       *)
(* found, [peaks, troughs], each a time-ordered sequence of                *)
(* <<time, height>>, and `available` is whether peakdet can be imported.   *)

\* peakinds[-size:] (rtp.py 254-255): with size = 0 the whole array
TakeLast(a, size) == IF size = 0 THEN a ELSE LastN(a, size)

\* out[np.argsort(out[:, 1])] (rtp.py 261) for rows with distinct times
RECURSIVE SortByTime(_)
SortByTime(rows) ==
    IF rows = {} THEN <<>>
    ELSE LET first == CHOOSE r \in rows : \A q \in rows : r[2] <= q[2]
         IN  <<first>> \o SortByTime(rows \ {first})

get_baseline(available, pf) ==
    LET size == Min2(Len(pf.troughs), Len(pf.peaks))
        p    == TakeLast(pf.peaks, size)
        t    == TakeLast(pf.troughs, size)
        pi   == {<<1, p[i][1], p[i][2]>> : i \in 1..Len(p)}
        ti   == {<<0, t[i][1], t[i][2]>> : i \in 1..Len(t)}
    IN  IF ~available THEN [none |-> TRUE, rows |-> <<>>]
        ELSE [none |-> FALSE, rows |-> SortByTime(pi \cup ti)]

----------------------------------------------------------------------------
(* rtp_finder (rtp.py 266-356).                                            *)

VARIABLES
    pc,           \* where rtp_finder is: "first_get", "live_get", "loop",
                  \* "done" (returned) or "raised" (ended by an exception)
    sig,          \* the window: rows <<time, amplitude>>
    last_found,   \* the history: rows <<class, time, amplitude>>
    thresh,       \* [nan, output]: the thresholds in use
    out,          \* [bound, none, rows]: the baseline returned by get_baseline
    dic,          \* the shared dictionary: baseline, debug, pipe, record
    sample_queue, \* items waiting for rtp_finder
    peak_queue,   \* items waiting for rtp_log
    step,         \* what the last step of rtp_finder did
    lastKind,     \* class of the latest confirmed record (-1: none yet)
    resetSince,   \* last_found was reset to the baseline since that record
    accepted,     \* number of samples appended to the window so far
    pauses,       \* number of long pauses in the samples fed so far
    caller,       \* where the program that drives the RTP object is
    logger,       \* peak_log_process: "none", "running" or "exited"
    written,      \* the rows rtp_log has written to the peaks file
    ret,          \* what the calls of get_extrema and peak_or_trough returned
    replay,       \* the input and the outcome of a run that is run again
    self,         \* the object: its class and the attributes log_process,
                  \* peak_log_process (0: None, -1: not set) and base_chan
    procs,        \* the logging processes started so far: [name, state]
    log_queue,    \* items waiting for the data logger
    sample_process, \* "setup", "alive" (at the head of the sampling loop),
                  \* "logging", "piping" (about to put), "exited", "raised"
    todo,         \* the steps the program has still to take in its call
    calls,        \* number of methods called so far
    reads         \* number of samples read from the device so far

\* the starter datapoints (rtp.py 293-295)
Dummy == <<<<0, 0, 0>>, <<1, 0, 0>>, <<-1, 0, 0>>,
           <<0, 0, 0>>, <<1, 0, 0>>, <<-1, 0, 0>>>>

\* st = np.ceil(1000. / dic['samplerate']) (rtp.py 309)
St == (1000 + dic.samplerate - 1) \div dic.samplerate

Kill == [kind |-> "kill", t |-> 0, a |-> 0]

IsKill(i) == i.kind = "kill"

Sample(t, a) == [kind |-> "data", t |-> t, a |-> a]

Last(s) == s[Len(s)]

\* a loop that appends every sample it is given
DiscardNothing(i, window) == FALSE

\* a loop that discards a sample only if it is older than the last one
DiscardOlderOnly(i, window) == i.t < Last(window)[1]

\* i[0] < sig[-1, 0] + st (rtp.py 314)
Discard(i, window) == i.t < Last(window)[1] + St

\* ex, l = peak or trough, int(bool(peak)) (rtp.py 321): a peak index 0 is
\* falsy; ex is <<>> when `peak or trough` is None
ExOf(r) ==
    IF r.peak # <<>> /\ r.peak[1] # 0 THEN r.peak ELSE r.trough

LOf(r) == IF r.peak # <<>> /\ r.peak[1] # 0 THEN 1 ELSE 0

\* last_found[np.where(last_found[:, 1] != 0)[0]] stacked twice
\* (rtp.py 329-330)
DropStarters(lf) ==
    LET keep == SelectSeqIdx(lf, {i \in 1..Len(lf) : lf[i][2] # 0})
    IN  keep \o keep

\* a history that keeps its starter datapoints
AddFoundKeeping(lf, row, baseline) == Append(lf, row)

\* rtp.py 324-330: the history after a detection at index ex
AddFound(lf, row, baseline) ==
    LET lf1 == Append(lf, row)
    IN  IF /\ ~baseline
           /\ Len(lf1) > SeedLimit
           /\ \E i \in 1..Len(lf1) : lf1[i][2] = 0
        THEN DropStarters(lf1) ELSE lf1

\* thresholds estimated from every record of the history
GenThreshWhole(lf) ==
    IF lf = <<>> THEN [raised |-> TRUE, nan |-> FALSE, output |-> <<<<0, 0>>, <<0, 0>>>>]
    ELSE gen_thresh(lf)

\* gen_thresh(last_found[:-1]); an empty last_found also makes it raise
GenThresh(lf) ==
    IF lf = <<>> THEN [raised |-> TRUE, nan |-> FALSE, output |-> <<<<0, 0>>, <<0, 0>>>>]
    ELSE gen_thresh(AllButLast(lf))

\* the thresholds the loop keeps
Kept(g) == [nan |-> g.nan, output |-> g.output]

\* a reset that leaves the baseline's own timestamps
ReanchorNot(lf, t0, g) == lf

\* last_found[-1, 1] = sig[0, 0] - t_thresh (rtp.py 306, 354), with
\* t_thresh = g[0, 0] to the millisecond
Reanchor(lf, t0, g) ==
    [lf EXCEPT ![Len(lf)] =
        <<lf[Len(lf)][1], t0 - (g.output[1][1] \div Prec), lf[Len(lf)][3]>>]

\* "if extrema was detected immediately" (rtp.py 337)
Immediate(ex, window) == ex = Len(window) - 2

\* a debug mode that reports the newest time for the time of the sample
EventAtNewestTime(window, l, debug, newesttime) ==
    IF debug THEN <<newesttime, Last(window)[2], l, newesttime>>
    ELSE <<Last(window)[1], Last(window)[2], l>>

\* the item put on peak_queue (rtp.py 340, 343)
Event(window, l, debug, newesttime) ==
    IF debug THEN <<Last(window)[1], Last(window)[2], l, newesttime>>
    ELSE <<Last(window)[1], Last(window)[2], l>>

\* the reset test of rtp.py 349
ResetDue(window, lf, baseline) ==
    baseline /\ Last(window)[1] - Last(lf)[2] > ResetAfter

fvars == <<pc, sig, last_found, thresh, out, step, lastKind, resetSince,
           accepted>>

Raise ==
    /\ pc' = "raised"
    /\ step' = "raise"
    /\ UNCHANGED <<sig, last_found, thresh, out, lastKind, resetSince,
                   accepted, peak_queue>>

\* a return that first reports the sample the window ends with
ReturnFlushing ==
    /\ pc' = "done"
    /\ step' = "kill"
    /\ peak_queue' = IF sig = <<>> THEN peak_queue
                     ELSE Append(peak_queue, <<Last(sig)[1], Last(sig)[2], 2>>)
    /\ UNCHANGED <<sig, last_found, thresh, out, lastKind, resetSince,
                   accepted>>

Return ==
    /\ pc' = "done"
    /\ step' = "kill"
    /\ UNCHANGED <<sig, last_found, thresh, out, lastKind, resetSince,
                   accepted, peak_queue>>

\* rtp.py 298-300: the baseline b is loaded; g is gen_thresh(last_found[:-1])
LoadBaseline(i, b, g) ==
    /\ out' = [bound |-> TRUE, none |-> b.none, rows |-> b.rows]
    /\ sig' = <<<<i.t, i.a>>>>
    /\ UNCHANGED <<thresh, lastKind, resetSince, accepted, peak_queue>>
    /\ IF b.none \/ g.raised
       THEN pc' = "raised" /\ step' = "raise" /\ UNCHANGED last_found
       ELSE pc' = "live_get" /\ step' = "baseline" /\ last_found' = b.rows

(* rtp.py 290-300 and, without a baseline, 308-309: the first item.  With  *)
(* dic['baseline'] set the item is the [channel, rate] pair put by         *)
(* stop_baseline and get_baseline is run on it.                            *)
FirstGet(i, b) ==
    /\ pc = "first_get"
    /\ IF IsKill(i) THEN Return
       ELSE IF dic.baseline THEN LoadBaseline(i, b, GenThresh(b.rows))
       ELSE /\ pc' = "loop"
            /\ step' = "first"
            /\ sig' = <<<<i.t, i.a>>>>
            /\ last_found' = Dummy
            /\ thresh' = Kept(GenThresh(Dummy))
            /\ accepted' = accepted + 1
            /\ UNCHANGED <<out, lastKind, resetSince, peak_queue>>

\* rtp.py 305-309 with g = gen_thresh(last_found[:-1])
StartLive(i, g) ==
    /\ pc' = "loop"
    /\ step' = "first"
    /\ sig' = <<<<i.t, i.a>>>>
    /\ last_found' = Reanchor(last_found, i.t, g)
    /\ thresh' = Kept(g)
    /\ accepted' = accepted + 1
    /\ UNCHANGED <<out, lastKind, resetSince, peak_queue>>

\* rtp.py 303-309: the first live sample after a baseline
LiveGet(i) ==
    /\ pc = "live_get"
    /\ IF IsKill(i) THEN Return ELSE StartLive(i, GenThresh(last_found))

\* rtp.py 332-346 with lf the new last_found and g = gen_thresh(lf[:-1])
Regenerate(window, ex, l, lf, g, newesttime) ==
    IF g.raised THEN Raise
    ELSE /\ last_found' = lf
         /\ thresh' = Kept(g)
         /\ IF Immediate(ex, window)
            THEN /\ peak_queue' =
                      Append(peak_queue, Event(window, l, dic.debug, newesttime))
                 /\ step' = "found"
            ELSE /\ peak_queue' = peak_queue
                 /\ step' = "late"
         /\ sig' = <<Last(window)>>
         /\ lastKind' = l
         /\ resetSince' = FALSE
         /\ accepted' = accepted + 1
         /\ UNCHANGED <<pc, out>>

\* rtp.py 324-330 with ex = <<index>> and l the class found
Record(window, ex, l, lf, newesttime) ==
    Regenerate(window, ex, l, lf, GenThresh(lf), newesttime)

\* rtp.py 319-346: a detection at ex (<<>> when `peak or trough` is None)
Found(window, ex, l, newesttime) ==
    IF ex = <<>> THEN Raise
    ELSE Record(window, ex[1], l,
                AddFound(last_found,
                         <<l, window[ex[1] + 1][1], window[ex[1] + 1][2]>>,
                         dic.baseline),
                newesttime)

\* a reset that reports a forced event at the current sample
ResetToForced(window, g) ==
    /\ last_found' = Reanchor(out.rows, Last(window)[1], g)
    /\ thresh' = Kept(g)
    /\ sig' = <<Last(window)>>
    /\ step' = "reset"
    /\ resetSince' = TRUE
    /\ accepted' = accepted + 1
    /\ peak_queue' = Append(peak_queue, <<Last(window)[1], Last(window)[2], 2>>)
    /\ UNCHANGED <<pc, out, lastKind>>

\* a reset that keeps the whole window
ResetKeepingWindow(window, g) ==
    /\ last_found' = Reanchor(out.rows, Last(window)[1], g)
    /\ thresh' = Kept(g)
    /\ sig' = window
    /\ step' = "reset"
    /\ resetSince' = TRUE
    /\ accepted' = accepted + 1
    /\ UNCHANGED <<pc, out, lastKind, peak_queue>>

\* a reset that stacks the baseline on the records found so far
ResetAccumulating(window, g) ==
    /\ last_found' = last_found \o Reanchor(out.rows, Last(window)[1], g)
    /\ thresh' = Kept(g)
    /\ sig' = <<Last(window)>>
    /\ step' = "reset"
    /\ resetSince' = TRUE
    /\ accepted' = accepted + 1
    /\ UNCHANGED <<pc, out, lastKind, peak_queue>>

\* rtp.py 350-356 with g = gen_thresh(out[:-1])
ResetTo(window, g) ==
    /\ last_found' = Reanchor(out.rows, Last(window)[1], g)
    /\ thresh' = Kept(g)
    /\ sig' = <<Last(window)>>
    /\ step' = "reset"
    /\ resetSince' = TRUE
    /\ accepted' = accepted + 1
    /\ UNCHANGED <<pc, out, lastKind, peak_queue>>

\* rtp.py 349-356: reset to baseline; `out` is unbound if none was loaded
Reset(window) ==
    IF ~out.bound THEN Raise ELSE ResetTo(window, GenThresh(out.rows))

\* rtp.py 317-356 on the window with the new sample; r is what
\* peak_or_trough returned
Detect(window, r, newesttime) ==
    IF r.peak # <<>> \/ r.trough # <<>>
    THEN Found(window, ExOf(r), LOf(r), newesttime)
    ELSE IF ResetDue(window, last_found, dic.baseline)
    THEN Reset(window)
    ELSE /\ sig' = window
         /\ step' = "none"
         /\ accepted' = accepted + 1
         /\ UNCHANGED <<pc, last_found, thresh, out, lastKind,
                        resetSince, peak_queue>>

\* rtp.py 316-317; int(np.floor(nan)) raises in peak_or_trough
Classify(window, newesttime) ==
    IF thresh.nan THEN Raise
    ELSE Detect(window,
                peak_or_trough(window, last_found, thresh.output, St),
                newesttime)

\* rtp.py 311-356: one turn of the main loop on item i
LoopGet(i, newesttime) ==
    /\ pc = "loop"
    /\ IF IsKill(i) THEN Return
       ELSE IF Discard(i, sig)
       THEN /\ step' = "discard"
            /\ UNCHANGED <<pc, sig, last_found, thresh, out, lastKind,
                           resetSince, accepted, peak_queue>>
       ELSE Classify(Append(sig, <<i.t, i.a>>), newesttime)

----------------------------------------------------------------------------
(* Spec: rtp_finder fed item by item.  Every item is what                  *)
(* sample_queue.get() may return: a sample, the [channel, rate] pair of    *)
(* stop_baseline, or 'kill'.                                               *)

\* amplitudes of the samples fed
Amps == {0, 1, 3}

\* time steps of the samples fed: samples that come out of order or too
\* early, the next sample due, and a pause longer than the reset time
Dts == {-St, 0, St, ResetAfter}

\* what PeakFinder may have found in the baseline recording
PFResults ==
    { [peaks |-> <<<<5, 3>>, <<15, 3>>>>, troughs |-> <<<<10, 0>>, <<20, 0>>>>],
      [peaks |-> <<<<10, 3>>, <<20, 3>>>>, troughs |-> <<<<5, 0>>, <<15, 0>>>>],
      [peaks |-> <<<<5, 3>>>>, troughs |-> <<<<10, 0>>>>],
      [peaks |-> <<<<5, 3>>>>, troughs |-> <<>>] }

NoThresh == [nan |-> FALSE, output |-> <<<<0, 0>>, <<0, 0>>>>]

NoBaseline == [bound |-> FALSE, none |-> FALSE, rows |-> <<>>]

FinderInit ==
    /\ pc = "first_get"
    /\ sig = <<>>
    /\ last_found = <<>>
    /\ thresh = NoThresh
    /\ out = NoBaseline
    /\ step = "start"
    /\ lastKind = -1
    /\ resetSince = FALSE
    /\ accepted = 0
    /\ peak_queue = <<>>

\* the shared dictionary after RTP.__init__ (rtp.py 58-61 and the base
\* class: mpdev.py 307-317, libmpdev.py 57-63); pipe is <<>> for None, and
\* newestsample has one value for each of the two channels of rtp.py 48
DicInit(baseline, debug, samplerate) ==
    [baseline |-> baseline, debug |-> debug, samplerate |-> samplerate,
     pipe |-> <<>>, record |-> FALSE, connected |-> TRUE,
     newesttime |-> 0, newestsample |-> <<0, 0>>]

\* no program drives the object: rtp_finder alone is run
NoCaller ==
    /\ caller = "none"
    /\ logger = "none"
    /\ written = <<>>

pvars == <<caller, logger, written>>

\* peak_or_trough returning (None, None)
NoResult == [peak |-> <<>>, trough |-> <<>>]

\* no method was called and no logging process was started
NoWorkers ==
    /\ self = [class |-> "BIOPAC", log_process |-> 0, peak_log_process |-> 0,
               base_chan |-> FALSE]
    /\ procs = <<>>
    /\ log_queue = <<>>
    /\ sample_process = "alive"
    /\ todo = <<>>
    /\ calls = 0
    /\ reads = 0

lvars == <<self, procs, log_queue, sample_process, todo, calls, reads>>

\* no call was made on its own and no run is kept to be run again
NoCalls ==
    /\ ret = [peaks |-> {}, troughs |-> {}, first |-> NoResult,
              second |-> NoResult]
    /\ replay = <<>>

xvars == <<ret, replay, lvars>>

Init ==
    /\ FinderInit
    /\ dic \in {DicInit(b, d, SampleRate) : b \in BOOLEAN, d \in BOOLEAN}
    /\ sample_queue = <<>>
    /\ pauses = 0
    /\ NoCaller
    /\ NoCalls
    /\ NoWorkers

\* the time steps still allowed by the bounds of the run
DtsNow ==
    IF accepted >= MaxSamples THEN {dt \in Dts : dt < St}
    ELSE IF pauses >= MaxPauses THEN {dt \in Dts : dt < ResetAfter}
    ELSE Dts

FeedFirst ==
    /\ pc = "first_get"
    /\ \E i \in {Kill} \cup {Sample(St, a) : a \in Amps} :
       \E available \in BOOLEAN, pf \in PFResults :
           FirstGet(i, get_baseline(available, pf))
    /\ UNCHANGED <<dic, sample_queue, pauses, pvars, xvars>>

FeedLive ==
    /\ pc = "live_get"
    /\ \E i \in {Kill} \cup {Sample(sig[1][1] + St, a) : a \in Amps} :
           LiveGet(i)
    /\ UNCHANGED <<dic, sample_queue, pauses, pvars, xvars>>

FeedLoop ==
    /\ pc = "loop"
    /\ \E i \in {Kill} \cup
                {Sample(Last(sig)[1] + dt, a) : dt \in DtsNow, a \in Amps} :
           LoopGet(i, i.t)
    /\ pauses' = IF Last(sig')[1] - Last(sig)[1] >= ResetAfter
                  THEN pauses + 1 ELSE pauses
    /\ UNCHANGED <<dic, sample_queue, pvars, xvars>>

Next == FeedFirst \/ FeedLive \/ FeedLoop

vars == <<pc, sig, last_found, thresh, out, dic, sample_queue, peak_queue,
          step, lastKind, resetSince, accepted, pauses, caller, logger,
          written, ret, replay, self, procs, log_queue, sample_process,
          todo, calls, reads>>

Spec == Init /\ [][Next]_vars

----------------------------------------------------------------------------
(* Properties of the detection loop, checked under Spec.                   *)

\* the step just taken confirmed an extremum
Confirmed == step \in {"found", "late"}

\* the step just taken appended a sample and confirmed nothing
Unconfirmed == step \in {"none", "reset"}

\* time from the last History record to the sample just appended, in the
\* step that leads to the primed state
Elapsed == Last(sig)[1] - Last(last_found)[2]

\* that time is beyond avg time + std time of the thresholds in use, once
\* these were estimated from records (the dummy seed gives all zeros)
OverAdaptiveBound ==
    /\ thresh.output[1][1] > 0
    /\ Elapsed' * Prec > thresh.output[1][1] + thresh.output[1][2]

(* C1 as stated: any two confirmed records added to History one after the  *)
(* other have different kinds, also across a reset to the baseline.        *)
C1_AlternationAcrossResets ==
    [][(Confirmed' /\ lastKind # -1) => lastKind' # lastKind]_vars

(* C1, amended: two confirmed records added one after the other with no    *)
(* reset of History to the baseline between them have different kinds,     *)
(* and the record appended carries the kind confirmed.                     *)
C1_AlternationBetweenResets ==
    [][Confirmed' =>
          /\ Last(last_found')[1] = lastKind'
          /\ (lastKind # -1 /\ ~resetSince) => lastKind' # lastKind]_vars

\* two detections in a row without a baseline, the second one just made
C1_Witness ==
    /\ step = "found"
    /\ ~dic.baseline
    /\ Len(peak_queue) >= 2
    /\ peak_queue[Len(peak_queue)][3] = lastKind
    /\ peak_queue[Len(peak_queue) - 1][3] = 1 - lastKind

(* C2: every confirmed extremum puts exactly one event on the output       *)
(* queue, immediate or late.                                               *)
C2_EveryConfirmationEmits ==
    [][Confirmed' => Len(peak_queue') = Len(peak_queue) + 1]_vars

(* C3 as stated: a sample appended with nothing confirmed, later than the  *)
(* adaptive bound after the last event, puts a Forced event at that sample *)
(* on the output queue.                                                    *)
C3_ForcedEventOnTimeout ==
    [][(Unconfirmed' /\ OverAdaptiveBound) =>
          /\ Len(peak_queue') = Len(peak_queue) + 1
          /\ Last(peak_queue')[1] = Last(sig')[1]]_vars

(* C3, amended: a sample appended with nothing confirmed never puts an     *)
(* event on the output queue; History is reset exactly when a baseline was *)
(* recorded and the sample is more than ResetAfter ms after the last       *)
(* History record, and otherwise the loop only appends the sample.         *)
C3_NoEventOnTimeout ==
    [][Unconfirmed' =>
          /\ peak_queue' = peak_queue
          /\ (step' = "reset") <=>
                (dic.baseline /\ Last(sig')[1] - Last(last_found)[2] > ResetAfter)]_vars

\* a pause beyond both bounds without a baseline: nothing was emitted
C3_Witness ==
    /\ step = "none"
    /\ ~dic.baseline
    /\ Elapsed > ResetAfter
    /\ thresh.output[1][1] > 0
    /\ Elapsed * Prec > thresh.output[1][1] + thresh.output[1][2]

(* C4 as stated: on such a timeout History is the baseline seed when a     *)
(* baseline exists and the dummy seed when none exists, and the Window is  *)
(* its last sample.                                                        *)
C4_ResetOnTimeout ==
    [][(Unconfirmed' /\ OverAdaptiveBound) =>
          /\ Len(sig') = 1
          /\ last_found' = IF dic.baseline THEN out.rows ELSE Dummy]_vars

(* C4, amended: only with a baseline, and only more than ResetAfter ms     *)
(* after the last History record, History becomes the baseline seed with   *)
(* the timestamp of its last record set to the sample's time minus the     *)
(* baseline's time threshold, and the Window its last sample; in every     *)
(* other case nothing is reset and the sample is appended to the Window.   *)
C4_ResetToReanchoredBaseline ==
    [][/\ (step' = "reset") =>
             /\ dic.baseline
             /\ Len(sig') = 1
             /\ Len(last_found') = Len(out.rows)
             /\ AllButLast(last_found') = AllButLast(out.rows)
             /\ Last(last_found')[1] = Last(out.rows)[1]
             /\ Last(last_found')[3] = Last(out.rows)[3]
             /\ Last(last_found')[2] =
                    Last(sig')[1] - (thresh'.output[1][1] \div Prec)
       /\ (step' = "none") =>
             /\ last_found' = last_found
             /\ Len(sig') = Len(sig) + 1
             /\ AllButLast(sig') = sig]_vars

\* History was just reset from a grown History to the re-anchored baseline
C4_Witness ==
    /\ step = "reset"
    /\ lastKind # -1
    /\ Len(sig) = 1
    /\ Last(last_found)[2] # Last(out.rows)[2]

(* C5: the events on the output queue carry non-decreasing timestamps.     *)
C5_MonotonicEventTimes ==
    \A i \in 1..Len(peak_queue) : \A j \in i..Len(peak_queue) :
        peak_queue[i][1] <= peak_queue[j][1]

\* two events are on the queue
C5_Witness == Len(peak_queue) >= 2 /\ peak_queue[1][1] < peak_queue[2][1]

(* C9: when rtp_finder reads 'kill' it returns and puts nothing more on    *)
(* the output queue.                                                       *)
C9_KillEmitsNothing ==
    [][(pc' = "done" /\ pc # "done") =>
          /\ pc \in {"first_get", "live_get", "loop"}
          /\ peak_queue' = peak_queue]_vars

\* the loop returned on 'kill' with an unconfirmed candidate in its window
C9_Witness ==
    /\ pc = "done"
    /\ Len(sig) >= 3
    /\ \/ get_extrema(Heights(sig), TRUE) # {}
       \/ get_extrema(Heights(sig), FALSE) # {}

(* C10: with a baseline requested and the seeder returning nothing, or     *)
(* fewer than one peak/trough pair, rtp_finder does not fail and goes on   *)
(* with the dummy seed.                                                    *)
C10_DegradedBaselineFallsBack ==
    (/\ out.bound
     /\ \/ out.none
        \/ ClassCol(out.rows, 1, 2) = <<>>
        \/ ClassCol(out.rows, 0, 2) = <<>>)
    => (pc # "raised" /\ last_found = Dummy)


(* C11: a sample earlier than the last window element's time plus the      *)
(* sampling interval is discarded: Window, History and Thresholds stay as  *)
(* they are, nothing is emitted and the loop goes on; and no such sample   *)
(* is ever appended.                                                       *)
C11_EarlySampleDiscarded ==
    [][/\ (pc = "loop" /\ step' = "discard") =>
             /\ pc' = "loop"
             /\ UNCHANGED <<sig, last_found, thresh, peak_queue, accepted>>
       /\ (pc = "loop" /\ accepted' # accepted) =>
             Last(sig')[1] >= Last(sig)[1] + St]_vars

\* an early sample was just discarded from a window of several samples
C11_Witness == step = "discard" /\ Len(sig) >= 2 /\ accepted >= 2

(* C12: in the Window each element is at least one sampling interval later *)
(* than the element before it.                                             *)
C12_WindowTimesIncrease ==
    \A k \in 1..(Len(sig) - 1) : sig[k + 1][1] >= sig[k][1] + St

\* a window of three samples from which an early sample was just kept out
C12_Witness == step = "discard" /\ Len(sig) >= 3

(* C13: the Window is never empty while the loop runs, and right after a   *)
(* confirmed detection or a reset of History it is one element: the sample *)
(* accepted in that step, newer than all the window held.                  *)
C13_WindowNeverEmpty ==
    /\ [](pc \in {"live_get", "loop"} => sig # <<>>)
    /\ [][(Confirmed' \/ step' = "reset") =>
             /\ Len(sig') = 1
             /\ sig'[1][1] >= Last(sig)[1] + St
             /\ accepted' = accepted + 1]_vars

\* a window that had grown was just cut to the newest sample by a reset
C13_Witness ==
    /\ step = "reset"
    /\ Len(sig) = 1
    /\ accepted >= 3

\* the next call of peak_or_trough, on the window with a sample of
\* amplitude a appended, returns at most one index
AtMostOneIndex(a) ==
    LET r == peak_or_trough(Append(sig, <<Last(sig)[1] + St, a>>),
                            last_found, thresh.output, St)
    IN  r.peak = <<>> \/ r.trough = <<>>

(* C14 as stated: at every call of peak_or_trough, the calls on the seeded *)
(* History included, exactly one of peak and trough is looked for.         *)
C14_OneHypothesisPerCall ==
    pc = "loop" => LookForPeak(last_found) # LookForTrough(last_found)

(* C14, amended: peak_or_trough looks for exactly one kind when the last   *)
(* History record is a peak or a trough, and for both (a peak first) when  *)
(* it is the dummy record of class -1, that is without a baseline until    *)
(* the first confirmation; every call returns at most one index.           *)
C14_OneHypothesisOnceFound ==
    pc = "loop" =>
        /\ LookForPeak(last_found) \/ LookForTrough(last_found)
        /\ (LookForPeak(last_found) /\ LookForTrough(last_found))
               <=> Last(last_found)[1] = -1
        /\ Last(last_found)[1] = -1 <=> (~dic.baseline /\ lastKind = -1)
        /\ ~thresh.nan => \A a \in Amps : AtMostOneIndex(a)

\* the first confirmation made from the dummy seed: one kind is open now
C14_Witness ==
    /\ pc = "loop"
    /\ step = "found"
    /\ ~dic.baseline
    /\ Len(peak_queue) = 1
    /\ LookForPeak(last_found) # LookForTrough(last_found)

\* all the samples of window w have the same amplitude
Flat(w) == \A k \in 1..Len(w) : w[k][2] = w[1][2]

(* C15: get_extrema finds nothing in a window of constant amplitude, and   *)
(* no Peak or Trough is ever confirmed on such a window.                   *)
C15_FlatWindowNeverConfirms ==
    /\ []((pc = "loop" /\ Flat(sig)) =>
             /\ get_extrema(Heights(sig), TRUE) = {}
             /\ get_extrema(Heights(sig), FALSE) = {})
    /\ [][Confirmed' => ~Flat(sig \o sig')]_vars

\* four samples of the same non-zero amplitude and nothing confirmed
C15_Witness ==
    /\ step = "none"
    /\ lastKind = -1
    /\ Len(sig) >= 4
    /\ Flat(sig)
    /\ sig[1][2] # 0

(* C17: a reset of History on the timeout leaves it no larger than it was  *)
(* before the reset plus one record.                                       *)
C17_ResetDoesNotGrowHistory ==
    [][step' = "reset" => Len(last_found') <= Len(last_found) + 1]_vars

\* History was reset after it had grown by a confirmed record
C17_Witness ==
    /\ step = "reset"
    /\ lastKind # -1
    /\ Len(last_found) = Len(out.rows)

\* the record timestamps of History lf are in non-decreasing order
OldestFirst(lf) == \A k \in 1..(Len(lf) - 1) : lf[k][2] <= lf[k + 1][2]

\* History grew by one record at its end
Appended == /\ Len(last_found') = Len(last_found) + 1
            /\ AllButLast(last_found') = last_found

\* the records of History lf that are not starter datapoints
RealRecords(lf) == SelectSeqIdx(lf, {i \in 1..Len(lf) : lf[i][2] # 0})

(* C25 as stated: between forced resets History changes only by appending  *)
(* one record per confirmed event, and its timestamps are oldest-first.    *)
C25_AppendOnlyOldestFirst ==
    [][(pc = "loop" /\ step' # "reset") =>
          /\ last_found' = last_found \/ (Confirmed' /\ Appended)
          /\ OldestFirst(last_found')]_vars

(* C25, amended: a turn of the loop that confirms nothing and resets       *)
(* nothing leaves History as it is.  A confirmed event appends one record, *)
(* not older than the last one; but without a baseline, when that makes    *)
(* History longer than seven records with starter datapoints among them,   *)
(* the starter datapoints are removed and the records left are stacked     *)
(* twice, the second copy older than the end of the first.                 *)
C25_AppendOrDropStarters ==
    [][(pc = "loop" /\ step' # "reset") =>
          IF ~Confirmed' THEN last_found' = last_found
          ELSE IF \/ dic.baseline
                  \/ Len(last_found) < SeedLimit
                  \/ \A i \in 1..Len(last_found) : last_found[i][2] # 0
          THEN Appended /\ Last(last_found')[2] >= Last(last_found)[2]
          ELSE /\ last_found' =
                      RealRecords(last_found) \o <<Last(last_found')>> \o
                      RealRecords(last_found) \o <<Last(last_found')>>
               /\ ~OldestFirst(last_found')]_vars

\* the starter datapoints were just removed and the records stacked twice
C25_Witness ==
    /\ Confirmed
    /\ ~dic.baseline
    /\ Len(last_found) = 4
    /\ last_found[1] = last_found[3]
    /\ \A i \in 1..4 : last_found[i][2] # 0

\* the step just taken set the Thresholds: the first sample of the live
\* signal was read, or an extremum was confirmed
Estimated == step = "first" \/ Confirmed

(* C26 as stated: after every confirmed event, and at the start, the       *)
(* Thresholds in use are the estimate of the whole History, the record     *)
(* just appended included.                                                 *)
C26_ThresholdsOfWholeHistory ==
    Estimated => thresh = Kept(gen_thresh(last_found))

(* C26, amended: after every confirmed event, and at the start, the        *)
(* Thresholds in use are the estimate of History without its last record:  *)
(* the record just appended counts only from the next confirmed event on.  *)
C26_ThresholdsOfAllButLast ==
    Estimated => thresh = Kept(gen_thresh(AllButLast(last_found)))

\* an extremum was confirmed and the record appended would have changed the
\* Thresholds
C26_Witness ==
    /\ Confirmed
    /\ thresh # Kept(gen_thresh(last_found))
    /\ Last(last_found)[2] # 0

(* C33: the timestamp and the amplitude of an emitted detection event are  *)
(* those of the record appended to History for that detection.             *)
C33_EventCarriesRecord ==
    step = "found" =>
        /\ Last(peak_queue)[1] = Last(last_found)[2]
        /\ Last(peak_queue)[2] = Last(last_found)[3]

----------------------------------------------------------------------------
(* SpecThresh: gen_thresh applied to histories of alternating peaks and    *)
(* troughs.                                                                *)

\* most pairs of a history; above MinRecords / 2 the standard deviation is
\* the weighted one
MaxPairs == 11

(* A history of n peak/trough pairs: records gap ms apart, of class        *)
(* `first` and the other class in turn, peaks of height amp and troughs of *)
(* height 0; the last record of the last pair comes `pause` ms late, and   *)
(* `extra` adds one more record that has no partner.                       *)
History(n, first, gap, amp, pause, extra) ==
    [k \in 1..(2 * n + extra) |->
        <<IF k % 2 = 1 THEN first ELSE 1 - first,
          k * gap + (IF k >= 2 * n THEN pause ELSE 0),
          IF (IF k % 2 = 1 THEN first ELSE 1 - first) = 1 THEN amp ELSE 0>>]

Histories ==
    {History(n, first, gap, amp, pause, extra) :
        n \in 0..MaxPairs, first \in {0, 1}, gap \in {5, 8},
        amp \in {-3, 1, 3}, pause \in {0, 60}, extra \in {0, 1}}

\* the number of peak/trough pairs that gen_thresh forms
Pairs(lf) == Min2(Len(ClassCol(lf, 1, 2)), Len(ClassCol(lf, 0, 2)))

InitThresh ==
    /\ FinderInit
    /\ dic = DicInit(FALSE, FALSE, SampleRate)
    /\ sample_queue = <<>>
    /\ pauses = 0
    /\ NoCaller
    /\ NoCalls
    /\ NoWorkers

\* the caller holds a history (rtp.py 324-330)
TakeHistory ==
    /\ pc = "first_get"
    /\ \E h \in Histories : last_found' = h
    /\ pc' = "history"
    /\ UNCHANGED <<sig, thresh, out, dic, sample_queue, peak_queue, step,
                   lastKind, resetSince, accepted, pauses, pvars, xvars>>

\* thresh = gen_thresh(last_found) with g the value returned
SetThresh(g) ==
    /\ pc' = IF g.raised THEN "raised" ELSE "estimated"
    /\ thresh' = IF g.raised THEN thresh ELSE Kept(g)
    /\ UNCHANGED <<sig, last_found, out, dic, sample_queue, peak_queue, step,
                   lastKind, resetSince, accepted, pauses, pvars, xvars>>

CallGenThresh ==
    /\ pc = "history"
    /\ SetThresh(gen_thresh(last_found))

NextThresh == TakeHistory \/ CallGenThresh

SpecThresh == InitThresh /\ [][NextThresh]_vars

(* C7: for a history of two or more peak/trough pairs gen_thresh returns a *)
(* mean and a dispersion that are not negative, for time and for height.   *)
C7_ThresholdsNonNegative ==
    (pc = "estimated" /\ Pairs(last_found) >= 2) =>
        \A r \in 1..2 : \A c \in 1..2 : thresh.output[r][c] >= 0

\* gen_thresh has returned thresholds for the history held
Estimates == pc = "estimated"

\* the dispersion of the row is half the weighted average, whose absolute
\* value is the mean of the row
HalfOfMean(row) == row[2] = row[1] \div 2 \/ row[2] = (-row[1]) \div 2

\* the dispersion of the row is 2.5 times the weighted standard deviation of
\* the distances kept in that column, or NaN
WeightedStd(row, dist, nan) ==
    \/ nan
    \/ /\ Len(dist) > 1
       /\ row[2] = StdevManyRecords(dist,
                       WAverage(Scaled(dist), Weights(Len(dist))))

\* the dispersion of both axes is the weighted one if `many`, half the mean
\* if not
DispersionRule(many) ==
    \A c \in 1..2 :
        IF many
        THEN WeightedStd(thresh.output[c], Inliers(Dist(last_found, c + 1)),
                         thresh.nan)
        ELSE HalfOfMean(thresh.output[c])

(* C31 as stated: the dispersion is half the mean exactly when the History *)
(* given holds fewer than 20 records and 2.5 times the weighted standard   *)
(* deviation when it holds 20 or more.                                     *)
C31_HalfBelowTwenty ==
    Estimates => DispersionRule(Len(last_found) >= MinRecords)

(* C31: the dispersion is half the weighted average when the History given *)
(* has 20 rows or fewer, all rows counted, and 2.5 times the weighted      *)
(* standard deviation (NaN with a single distance) when it has more.       *)
C31_HalfUpToTwenty ==
    Estimates => DispersionRule(Len(last_found) > MinRecords)

\* a History of exactly 20 rows whose dispersion in time is half the mean
\* and not the weighted standard deviation
C31_Witness ==
    /\ Estimates
    /\ Len(last_found) = MinRecords
    /\ HalfOfMean(thresh.output[1])
    /\ ~WeightedStd(thresh.output[1], Inliers(Dist(last_found, 2)),
                    thresh.nan)

----------------------------------------------------------------------------
(* SpecSine: rtp_finder on a sine wave of period 1000 ms sampled at 100 Hz *)
(* and searched at 50 Hz, without a baseline.                              *)

\* number of samples of the wave that are put on the queue
SineSamples == 1000

\* samples per period of the wave, and the time between two of them
SinePeriod == 10 * 10

SineStep == 2 * 5

SineRate == 5 * 10

\* round(100 sin(2 pi k / 100)) for k = 1..100
SineTable == <<
         6,   13,   19,   25,   31,   37,   43,   48,   54,   59,
        64,   68,   73,   77,   81,   84,   88,   90,   93,   95,
        97,   98,   99,  100,  100,  100,   99,   98,   97,   95,
        93,   90,   88,   84,   81,   77,   73,   68,   64,   59,
        54,   48,   43,   37,   31,   25,   19,   13,    6,    0,
        -6,  -13,  -19,  -25,  -31,  -37,  -43,  -48,  -54,  -59,
       -64,  -68,  -73,  -77,  -81,  -84,  -88,  -90,  -93,  -95,
       -97,  -98,  -99, -100, -100, -100,  -99,  -98,  -97,  -95,
       -93,  -90,  -88,  -84,  -81,  -77,  -73,  -68,  -64,  -59,
       -54,  -48,  -43,  -37,  -31,  -25,  -19,  -13,   -6,    0 >>

SineItem(k) == Sample(SineStep * k, SineTable[((k - 1) % SinePeriod) + 1])

InitSine ==
    /\ FinderInit
    /\ dic = DicInit(FALSE, FALSE, SineRate)
    /\ sample_queue = [k \in 1..SineSamples |-> SineItem(k)] \o <<Kill>>
    /\ pauses = 0
    /\ NoCaller
    /\ NoCalls
    /\ NoWorkers

\* i = sample_queue.get() at rtp.py 291
FinderFirst ==
    /\ pc = "first_get"
    /\ sample_queue # <<>>
    /\ FirstGet(Head(sample_queue),
                get_baseline(FALSE, [peaks |-> <<>>, troughs |-> <<>>]))
    /\ sample_queue' = Tail(sample_queue)
    /\ UNCHANGED <<dic, pauses, pvars, xvars>>

\* i = sample_queue.get() at rtp.py 312
FinderLoop ==
    /\ pc = "loop"
    /\ sample_queue # <<>>
    /\ LoopGet(Head(sample_queue), dic.newesttime)
    /\ sample_queue' = Tail(sample_queue)
    /\ UNCHANGED <<dic, pauses, pvars, xvars>>

NextSine == FinderFirst \/ FinderLoop

SpecSine == InitSine /\ [][NextSine]_vars

(* C6: on the sine wave each confirmed extremum comes half a period after  *)
(* the one before it, give or take one sample each: no cycle is skipped.   *)
C6_NoCycleSkipped ==
    [][(Confirmed' /\ lastKind # -1) =>
          Last(last_found')[2] - Last(last_found)[2]
              <= (SinePeriod \div 2 + 2) * SineStep]_vars

----------------------------------------------------------------------------
(* SpecProc: the processes of an RTP object that was never baselined: the  *)
(* program calling start_peak_finding, stop_peak_finding and close, the    *)
(* sampling process, rtp_finder and rtp_log, with the two queues between   *)
(* them.                                                                   *)

\* number of samples the device delivers in a run of the model
MaxTicks == 4

\* 'kill' as an item of peak_queue
KillItem == <<"kill">>

\* dic['sampletime'] (mpdev.py 309, libmpdev.py 57)
SampleTime == 1000 \div dic.samplerate

InitProc ==
    /\ FinderInit
    /\ dic = DicInit(FALSE, FALSE, SampleRate)
    /\ sample_queue = <<>>
    /\ pauses = 0
    /\ caller = "ready"
    /\ logger = "none"
    /\ written = <<>>
    /\ NoCalls
    /\ NoWorkers

\* start_peak_finding (rtp.py 73-119) when no peak finding is going on
StartPeakFinding ==
    /\ caller \in {"ready", "stopped"}
    /\ dic.pipe = <<>>
    /\ dic' = [dic EXCEPT !.record = TRUE, !.pipe = <<0>>]
    /\ logger' = "running"
    /\ caller' = "finding"
    /\ UNCHANGED <<fvars, xvars, sample_queue, peak_queue, pauses, written>>

\* stop_peak_finding (rtp.py 127-128): the pipe is closed, recording stops
StopPipe ==
    /\ caller = "finding"
    /\ dic' = [dic EXCEPT !.record = FALSE, !.pipe = <<>>]
    /\ caller' = "stop_kill"
    /\ UNCHANGED <<fvars, xvars, sample_queue, peak_queue, pauses, logger,
                   written>>

\* self.peak_queue.put('kill') (rtp.py 132)
StopKill ==
    /\ caller = "stop_kill"
    /\ peak_queue' = Append(peak_queue, KillItem)
    /\ caller' = "stop_join"
    /\ UNCHANGED <<fvars, xvars, dic, sample_queue, pauses, logger, written>>

\* self.peak_log_process.join() and = None (rtp.py 133-134)
StopJoin ==
    /\ caller = "stop_join"
    /\ logger = "exited"
    /\ logger' = "none"
    /\ caller' = "stopped"
    /\ UNCHANGED <<fvars, xvars, dic, sample_queue, peak_queue, pauses,
                   written>>

(* close (rtp.py 174-175) once stop_peak_finding has returned, or when it  *)
(* has nothing to stop: self.sample_queue.put('kill')                      *)
CloseKill ==
    /\ caller \in {"ready", "stopped"}
    /\ sample_queue' = Append(sample_queue, Kill)
    /\ caller' = "close_join"
    /\ UNCHANGED <<fvars, xvars, dic, peak_queue, pauses, logger, written>>

\* self.peak_process.join() and the close of the base class (rtp.py 176-177)
CloseJoin ==
    /\ caller = "close_join"
    /\ pc \in {"done", "raised"}
    /\ dic' = [dic EXCEPT !.connected = FALSE]
    /\ caller' = "closed"
    /\ UNCHANGED <<fvars, xvars, sample_queue, peak_queue, pauses, logger,
                   written>>

\* amplitudes of the channel that is not watched
AuxAmps == {0, 1}

\* what receive_data may return for the two channels
Acquired == Amps \X AuxAmps

\* sample_queue.put([currtime, data[pipe]]) if dic['pipe'] is not None
Piped(data) ==
    IF dic.pipe # <<>>
    THEN Append(sample_queue,
                Sample(dic.newesttime + SampleTime, data[dic.pipe[1] + 1]))
    ELSE sample_queue

(* One turn of the sampling loop (mpdev.py 243-255, libmpdev.py 212-221)   *)
(* on data that differ from the newest sample in some channel; on equal    *)
(* data the turn changes nothing.                                          *)
Acquire ==
    /\ dic.connected
    /\ dic.newesttime < MaxTicks * SampleTime
    /\ \E data \in Acquired \ {dic.newestsample} :
          /\ dic' = [dic EXCEPT !.newestsample = data,
                                !.newesttime = dic.newesttime + SampleTime]
          /\ sample_queue' = Piped(data)
    /\ UNCHANGED <<fvars, peak_queue, pauses, pvars, xvars>>

\* one turn of the loop of rtp_log (rtp.py 196-200)
LogGet ==
    /\ logger = "running"
    /\ peak_queue # <<>>
    /\ peak_queue' = Tail(peak_queue)
    /\ IF Head(peak_queue) = KillItem
       THEN logger' = "exited" /\ written' = written
       ELSE logger' = logger /\ written' = Append(written, Head(peak_queue))
    /\ UNCHANGED <<fvars, xvars, dic, sample_queue, pauses, caller>>

NextProc ==
    \/ StartPeakFinding
    \/ StopPipe
    \/ StopKill
    \/ StopJoin
    \/ CloseKill
    \/ CloseJoin
    \/ Acquire
    \/ FinderFirst
    \/ FinderLoop
    \/ LogGet

SpecProc == InitProc /\ [][NextProc]_vars

(* C8: when rtp_finder has returned on 'kill', no detection event it put   *)
(* on the output queue is left there unread: rtp_log has written them all. *)
C8_OutputDrainedOnReturn ==
    pc = "done" => \A k \in 1..Len(peak_queue) : peak_queue[k] = KillItem

\* items k and k + 1 of sample_queue are samples of the same amplitude
Repeated(k) ==
    /\ ~IsKill(sample_queue[k])
    /\ ~IsKill(sample_queue[k + 1])
    /\ sample_queue[k].a = sample_queue[k + 1].a

(* C20 as stated: two consecutive samples on the sample queue never carry  *)
(* the same amplitude, with more than one channel acquired as well.        *)
C20_NoRepeatedAmplitude ==
    \A k \in 1..(Len(sample_queue) - 1) : ~Repeated(k)

----------------------------------------------------------------------------
(* SpecClassify: single calls of get_extrema and of peak_or_trough, the    *)
(* latter made twice on the same arguments.                                *)

\* longest window drawn
MaxWindow == 5

\* the data of scenario D
ScenarioD == <<0, 1, 2, 1, 0, -1, -2, -1, 0>>

\* the amplitude sequences of the windows drawn
WindowData ==
    {ScenarioD} \cup UNION {[1..n -> Amps] : n \in 1..MaxWindow}

(* A history of 23 records of a signal that is not regular: records of     *)
(* class `first` and the other class in turn, 5 ms apart but for two of    *)
(* them that come 20 ms late, the peaks 3 and 1 high in turn and the       *)
(* troughs at 0.  Its time threshold has a deviation above the average.    *)
IrregularHistory(first) ==
    [k \in 1..23 |->
        <<IF k % 2 = 1 THEN first ELSE 1 - first,
          5 * k + (IF k >= 20 THEN 20 ELSE 0) + (IF k >= 22 THEN 20 ELSE 0),
          IF (IF k % 2 = 1 THEN first ELSE 1 - first) = 0 THEN 0
          ELSE IF (k \div 2) % 2 = 0 THEN 3 ELSE 1>>]

\* the histories drawn: the dummy seed, two pairs with or without a
\* record more, a peak or a trough coming first, and the irregular ones
ClassifyHistories ==
    {Dummy} \cup {History(2, first, 5, 3, 0, extra) :
                     first \in {0, 1}, extra \in {0, 1}}
            \cup {IrregularHistory(first) : first \in {0, 1}}

\* the window of amplitudes data that starts one interval after History h
WindowAfter(h, data) ==
    [k \in 1..Len(data) |-> <<Last(h)[2] + k * St, data[k]>>]

InitClassify ==
    /\ FinderInit
    /\ dic = DicInit(FALSE, FALSE, SampleRate)
    /\ sample_queue = <<>>
    /\ pauses = 0
    /\ NoCaller
    /\ NoCalls
    /\ NoWorkers

\* the arguments as rtp_finder holds them at rtp.py 316-317
TakeArgs ==
    /\ pc = "first_get"
    /\ \E h \in ClassifyHistories, data \in WindowData :
          /\ last_found' = h
          /\ thresh' = Kept(GenThresh(h))
          /\ sig' = WindowAfter(h, data)
    /\ pc' = "args"
    /\ UNCHANGED <<out, dic, sample_queue, peak_queue, step, lastKind,
                   resetSince, accepted, pauses, pvars, xvars>>

\* get_extrema(signal[:, 1]) and get_extrema(signal[:, 1], peaks=False)
CallGetExtrema ==
    /\ pc = "args"
    /\ ret' = [ret EXCEPT !.peaks = get_extrema(Heights(sig), TRUE),
                          !.troughs = get_extrema(Heights(sig), FALSE)]
    /\ pc' = "extrema"
    /\ UNCHANGED <<sig, last_found, thresh, out, dic, sample_queue,
                   peak_queue, step, lastKind, resetSince, accepted, pauses,
                   pvars, replay, lvars>>

\* a call that leaves the normalised data in the window it was given
CallPeakOrTroughInPlace ==
    /\ pc = "extrema"
    /\ ret' = [ret EXCEPT !.first =
                   peak_or_trough(sig, last_found, thresh.output, St)]
    /\ sig' = [k \in 1..Len(sig) |->
                  <<sig[k][1], normalize(Heights(sig))[k]>>]
    /\ pc' = "classified"
    /\ UNCHANGED <<last_found, thresh, out, dic, sample_queue,
                   peak_queue, step, lastKind, resetSince, accepted, pauses,
                   pvars, replay, lvars>>

\* peak, trough = peak_or_trough(sig, last_found, thresh, st) (rtp.py 317)
CallPeakOrTrough ==
    /\ pc = "extrema"
    /\ ret' = [ret EXCEPT !.first =
                   peak_or_trough(sig, last_found, thresh.output, St)]
    /\ pc' = "classified"
    /\ UNCHANGED <<sig, last_found, thresh, out, dic, sample_queue,
                   peak_queue, step, lastKind, resetSince, accepted, pauses,
                   pvars, replay, lvars>>

\* what is no argument of peak_or_trough changes between the two calls
Disturb ==
    /\ pc = "classified"
    /\ dic' = [dic EXCEPT !.debug = TRUE, !.newesttime = Last(sig)[1]]
    /\ peak_queue' = Append(peak_queue, Event(sig, 1, TRUE, Last(sig)[1]))
    /\ pc' = "disturbed"
    /\ UNCHANGED <<sig, last_found, thresh, out, sample_queue, step,
                   lastKind, resetSince, accepted, pauses, pvars, xvars>>

\* the same call once more
CallAgain ==
    /\ pc \in {"classified", "disturbed"}
    /\ ret' = [ret EXCEPT !.second =
                   peak_or_trough(sig, last_found, thresh.output, St)]
    /\ pc' = "again"
    /\ UNCHANGED <<sig, last_found, thresh, out, dic, sample_queue,
                   peak_queue, step, lastKind, resetSince, accepted, pauses,
                   pvars, replay, lvars>>

NextClassify ==
    \/ TakeArgs
    \/ CallGetExtrema
    \/ CallPeakOrTrough
    \/ Disturb
    \/ CallAgain

SpecClassify == InitClassify /\ [][NextClassify]_vars

(* C16: on [0,1,2,1,0,-1,-2,-1,0] get_extrema returns exactly the index 2  *)
(* for peaks and exactly the index 6 for troughs.                          *)
C16_ScenarioD ==
    (pc \in {"extrema", "classified", "disturbed", "again"}
        /\ Heights(sig) = ScenarioD)
    => (ret.peaks = {2} /\ ret.troughs = {6})

\* get_extrema was called on the data of scenario D
C16_Witness ==
    /\ pc = "extrema"
    /\ Heights(sig) = ScenarioD
    /\ ret.peaks # {}
    /\ ret.troughs # {}

Called == pc \in {"extrema", "classified", "disturbed", "again"}

\* the sign of the first difference of data
RawTrend(data) == [i \in 1..(Len(data) - 1) |-> Sign(data[i + 1] - data[i])]

\* the 0-based indices at which trend goes from `from` to -from
Turns(trend, from) ==
    {k \in 1..(Len(trend) - 1) : trend[k] = from /\ trend[k + 1] = -from}

\* the trend with every flat run taken for ascending
FlatAscending(trend) ==
    [k \in 1..Len(trend) |-> IF trend[k] = 0 THEN 1 ELSE trend[k]]

\* the 0-based indices of the values of data above the mean of data
AboveMean(data) ==
    {i \in 0..(Len(data) - 1) : Len(data) * data[i + 1] > SumSeq(data)}

\* the 0-based indices of the values of data below the mean of data
BelowMean(data) ==
    {i \in 0..(Len(data) - 1) : Len(data) * data[i + 1] < SumSeq(data)}

(* C27 as stated: with the default threshold get_extrema returns every     *)
(* index at which the resolved sign goes from +1 to -1 as a peak and every *)
(* index at which it goes from -1 to +1 as a trough, whatever the height.  *)
C27_NoHeightRestriction ==
    Called =>
        /\ ret.peaks = Turns(FlatAscending(RawTrend(Heights(sig))), 1)
        /\ ret.troughs = Turns(FlatAscending(RawTrend(Heights(sig))), -1)

(* C27, amended: with the default threshold get_extrema returns as peaks   *)
(* the indices at which the resolved sign goes from +1 to -1 and the value *)
(* is above the mean of the window, and as troughs those at which it goes  *)
(* from -1 to +1 and the value is below the mean.                          *)
C27_RestrictedToSideOfMean ==
    Called =>
        /\ ret.peaks = Turns(FlatAscending(RawTrend(Heights(sig))), 1)
                           \cap AboveMean(Heights(sig))
        /\ ret.troughs = Turns(FlatAscending(RawTrend(Heights(sig))), -1)
                             \cap BelowMean(Heights(sig))

\* a window with a local maximum that is not above the mean of the window
\* and is not returned, and a peak that is
C27_Witness ==
    /\ pc = "extrema"
    /\ ret.peaks # {}
    /\ Turns(FlatAscending(RawTrend(Heights(sig))), 1) \ ret.peaks # {}

\* the sign of the first nonzero difference from position k on, +1 if none
NextSign(trend, k) ==
    LET later == {j \in k..Len(trend) : trend[j] # 0}
    IN  IF later = {} THEN 1
        ELSE trend[CHOOSE j \in later : \A i \in later : j <= i]

\* the trend with every flat run taking the sign of what follows it
FlatForward(trend) == [k \in 1..Len(trend) |-> NextSign(trend, k)]

\* data never increases, has a plateau and ends with a decrease
PlateauOnTheWayDown(data) ==
    /\ Len(data) >= 3
    /\ \A i \in 1..(Len(data) - 1) : data[i + 1] <= data[i]
    /\ \E i \in 1..(Len(data) - 1) : data[i + 1] = data[i]
    /\ data[Len(data)] < data[Len(data) - 1]

(* C28: a flat run takes the sign of the next nonzero difference after it, *)
(* ascending if there is none; a non-increasing signal with a plateau that *)
(* a decrease follows has no peak and no trough.                           *)
C28_FlatRunLooksForward ==
    Called =>
        /\ ret.peaks = Turns(FlatForward(RawTrend(Heights(sig))), 1)
                           \cap AboveMean(Heights(sig))
        /\ ret.troughs = Turns(FlatForward(RawTrend(Heights(sig))), -1)
                             \cap BelowMean(Heights(sig))
        /\ PlateauOnTheWayDown(Heights(sig)) =>
               ret.peaks = {} /\ ret.troughs = {}

\* the samples of window among the lookback before 0-based index p, all of
\* those before p when there are fewer, that are above (dir = 1) or below
\* (dir = -1) the sample at p
Dominating(window, p, lookback, dir) ==
    {k \in Max2(0, p - lookback)..(p - 1) :
        dir * window[k + 1][2] > dir * window[p + 1][2]}

(* C29: a peak confirmed at window index p is at least as high as each of  *)
(* the `lookback` samples before it, or as all samples before it when      *)
(* there are fewer; a confirmed trough is at least as low as each of them. *)
C29_ExtremumDominatesLookback ==
    pc = "classified" =>
        /\ ret.first.peak # <<>> =>
               Dominating(sig, ret.first.peak[1],
                          Avgrate(thresh.output, St), 1) = {}
        /\ ret.first.trough # <<>> =>
               Dominating(sig, ret.first.trough[1],
                          Avgrate(thresh.output, St), -1) = {}

\* floor(x / sampling interval) for x a time of the thresholds
InIntervals(x) == x \div (St * Prec)

(* C30 as stated: the lookback is floor(time mean / sampling interval),    *)
(* and 5 whenever that is zero or negative.                                *)
C30_LookbackOfMeanOrFive ==
    pc = "args" =>
        Avgrate(thresh.output, St) =
            IF InIntervals(thresh.output[1][1]) <= 0 THEN 5
            ELSE InIntervals(thresh.output[1][1])

(* C30, amended: the lookback is floor((time mean - time deviation) /      *)
(* sampling interval); it is 5 when that is negative and 0 (no sample is   *)
(* looked back at) when that is zero, as with the all-zero thresholds of   *)
(* the dummy seed.                                                         *)
C30_LookbackOfLowerBound ==
    pc = "args" =>
        Avgrate(thresh.output, St) =
            IF InIntervals(thresh.output[1][1] - thresh.output[1][2]) < 0
            THEN 5
            ELSE InIntervals(thresh.output[1][1] - thresh.output[1][2])

\* the dummy seed: all-zero thresholds and no lookback
C30_Witness ==
    /\ pc = "args"
    /\ last_found = Dummy
    /\ thresh.output[1] = <<0, 0>>
    /\ Avgrate(thresh.output, St) = 0

\* the amplitude criterion before the adjustment: mean - dispersion
UnadjustedHdiff == thresh.output[2][1] - thresh.output[2][2]

(* C32: the elapsed-time adjustment only loosens the amplitude criterion:  *)
(* it leaves it unchanged when the time elapsed is at most time.mean +     *)
(* time.dispersion, never raises it, and never changes the time criterion. *)
C32_AdjustmentOnlyLoosens ==
    pc = "args" =>
        /\ Elapsed * Prec <= thresh.output[1][1] + thresh.output[1][2] =>
               Hdiff(sig, last_found, thresh.output) = UnadjustedHdiff
        /\ Hdiff(sig, last_found, thresh.output) <= UnadjustedHdiff
        /\ Tdiff(thresh.output) = thresh.output[1][1] - thresh.output[1][2]

\* the indices strictly inside the window
Inside == 1..(Len(sig) - 2)

(* C39: every index get_extrema returns lies strictly inside the window,   *)
(* so does every index the classifier confirms, and `peak or trough` picks *)
(* the confirmed index with its kind: a peak at index 0 does not occur.    *)
C39_ExtremaInsideWindow ==
    /\ Called => ret.peaks \cup ret.troughs \subseteq Inside
    /\ pc \in {"classified", "disturbed", "again"} =>
          /\ ret.first.peak # <<>> =>
                /\ ret.first.peak[1] \in Inside
                /\ ExOf(ret.first) = ret.first.peak
                /\ LOf(ret.first) = 1
          /\ ret.first.peak = <<>> /\ ret.first.trough # <<>> =>
                /\ ret.first.trough[1] \in Inside
                /\ ExOf(ret.first) = ret.first.trough
                /\ LOf(ret.first) = 0

\* a peak confirmed at index 1, the first index inside the window
C39_Witness ==
    /\ pc = "classified"
    /\ ret.first.peak = <<1>>
    /\ 1 \in ret.peaks

----------------------------------------------------------------------------
(* SpecDebug: rtp_finder run on an input stream with dic['debug'] set,     *)
(* then run again on the same stream and the same baseline without it.     *)

\* most samples of a stream
MaxStream == 5

\* the baselines of the runs: what PeakFinder found, none when no baseline
\* was recorded
DebugBaselines ==
    {pf \in PFResults : Len(pf.peaks) = 2}

(* The stream of amplitudes data, one sample per interval, with a pause    *)
(* longer than the reset time before sample number `late` (0: no pause),   *)
(* and 'kill' at its end.                                                  *)
Stream(data, late) ==
    [k \in 1..Len(data) |->
        Sample(k * ((1000 + SampleRate - 1) \div SampleRate)
                   + (IF late # 0 /\ k >= late THEN ResetAfter + 5 ELSE 0),
               data[k])] \o <<Kill>>

Streams ==
    {Stream(data, late) :
        data \in UNION {[1..n -> Amps] : n \in 0..MaxStream},
        late \in {0, 4}}

InitDebug ==
    /\ FinderInit
    /\ pauses = 0
    /\ NoCaller
    /\ NoWorkers
    /\ ret = [peaks |-> {}, troughs |-> {}, first |-> NoResult,
              second |-> NoResult]
    /\ \E b \in BOOLEAN, pf \in DebugBaselines, input \in Streams :
          /\ dic = DicInit(b, TRUE, SampleRate)
          /\ sample_queue = input
          /\ replay = [input |-> input, pf |-> pf, kept |-> FALSE,
                       pc |-> "", history |-> <<>>, events |-> <<>>]

\* the (timestamp, amplitude, kind) of the items of peak_queue
Detections(q) == [k \in 1..Len(q) |-> SubSeq(q[k], 1, 3)]

\* i = sample_queue.get() at rtp.py 290, with the baseline of the run
ReplayFirst ==
    /\ pc = "first_get"
    /\ sample_queue # <<>>
    /\ FirstGet(Head(sample_queue), get_baseline(TRUE, replay.pf))
    /\ sample_queue' = Tail(sample_queue)
    /\ UNCHANGED <<dic, pauses, pvars, xvars>>

\* sig = sample_queue.get() at rtp.py 303
FinderLive ==
    /\ pc = "live_get"
    /\ sample_queue # <<>>
    /\ LiveGet(Head(sample_queue))
    /\ sample_queue' = Tail(sample_queue)
    /\ UNCHANGED <<dic, pauses, pvars, xvars>>

\* the run with debug has ended: its outcome is kept and rtp_finder is
\* started on the same input with dic['debug'] False
RunAgain ==
    /\ pc \in {"done", "raised"}
    /\ dic.debug
    /\ replay' = [replay EXCEPT !.kept = TRUE, !.pc = pc,
                                !.history = last_found,
                                !.events = Detections(peak_queue)]
    /\ dic' = [dic EXCEPT !.debug = FALSE]
    /\ sample_queue' = replay.input
    /\ pc' = "first_get"
    /\ sig' = <<>>
    /\ last_found' = <<>>
    /\ thresh' = NoThresh
    /\ out' = NoBaseline
    /\ step' = "start"
    /\ lastKind' = -1
    /\ resetSince' = FALSE
    /\ accepted' = 0
    /\ peak_queue' = <<>>
    /\ UNCHANGED <<pauses, pvars, ret, lvars>>

NextDebug == ReplayFirst \/ FinderLive \/ FinderLoop \/ RunAgain

SpecDebug == InitDebug /\ [][NextDebug]_vars

----------------------------------------------------------------------------
(* SpecLife: the life of an RTP object from its construction to close():   *)
(* the program calling its methods in any order, the sampling process, the *)
(* data loggers, rtp_finder and the peak loggers.  The recording methods   *)
(* are those of the class the object takes them from: BIOPAC (mpdev.py     *)
(* 260-398) or MP150 (libmpdev.py 45-136).                                 *)

\* most methods the program calls
MaxCalls == 3

\* number of samples read from the device in a life
MaxLifeTicks == 2

Classes == {"BIOPAC", "MP150"}

\* the steps of stop_recording (mpdev.py 372-376, libmpdev.py 108-111)
stop_recording == <<"record_off", "log_kill", "log_join">>

\* the steps of start_recording (mpdev.py 352-367, libmpdev.py 88-101)
start_recording == <<"record_test", "record_on", "log_start">>

\* a stop_peak_finding that leaves the peak logger alone
stop_pipe_only == <<"pipe_off">> \o stop_recording

\* the steps of stop_peak_finding (rtp.py 127-134)
stop_peak_finding ==
    <<"pipe_off">> \o stop_recording \o <<"peak_kill", "peak_join">>

\* the steps of start_peak_finding (rtp.py 103-119)
start_peak_finding ==
    <<"pipe_test">> \o start_recording \o <<"pipe_on", "peak_start">>

\* the steps of start_baseline (rtp.py 152-154)
start_baseline == start_recording \o <<"base_chan">>

\* the steps of stop_baseline (rtp.py 164-166)
stop_baseline == stop_recording \o <<"baseline_on", "baseline_put">>

\* the steps of RTP.close (rtp.py 173-177) and of the close it calls
\* (mpdev.py 393-398, libmpdev.py 132-136)
close ==
    stop_peak_finding \o
    <<"finder_kill", "finder_join", "disconnect", "close_test",
      "sampler_join">>

Methods ==
    {start_recording, stop_recording, start_peak_finding, stop_peak_finding,
     start_baseline, stop_baseline, close}

\* the processes of that name that are alive
Alive(name) ==
    {p \in 1..Len(procs) :
        procs[p].name = name /\ procs[p].state = "alive"}

\* what SpecLife leaves to the other specifications
unused == <<pauses, logger, written, ret, replay, reads>>

InitLife ==
    /\ FinderInit
    /\ dic = [DicInit(FALSE, FALSE, SampleRate) EXCEPT !.connected = FALSE]
    /\ sample_queue = <<>>
    /\ pauses = 0
    /\ caller = "constructing"
    /\ logger = "none"
    /\ written = <<>>
    /\ NoCalls
    /\ \E c \in Classes :
          self = [class |-> c,
                  log_process |-> IF c = "BIOPAC" THEN 0 ELSE -1,
                  peak_log_process |-> 0, base_chan |-> FALSE]
    /\ procs = <<>>
    /\ log_queue = <<>>
    /\ sample_process = "setup"
    /\ todo = <<>>
    /\ calls = 0
    /\ reads = 0

\* setup_biopac returns: dic['connected'] = True (mpdev.py 130,
\* libmpdev.py 208)
SetupOK ==
    /\ sample_process = "setup"
    /\ sample_process' = "alive"
    /\ dic' = [dic EXCEPT !.connected = TRUE]
    /\ UNCHANGED <<fvars, unused, sample_queue, peak_queue, caller, self,
                   procs, log_queue, todo, calls>>

(* setup_biopac raises (mpdev.py 60-132): Process.run catches the          *)
(* exception and raises it again, in the child process (process.py 22-27); *)
(* the child ends and nothing is sent to the parent.                       *)
SetupFails ==
    /\ sample_process = "setup"
    /\ sample_process' = "raised"
    /\ UNCHANGED <<fvars, unused, dic, sample_queue, peak_queue, caller,
                   self, procs, log_queue, todo, calls>>

\* "while not self.dic['connected']: pass" is left (mpdev.py 339,
\* libmpdev.py 76) and RTP.__init__ starts rtp_finder (rtp.py 58-71)
Constructed ==
    /\ caller = "constructing"
    /\ dic.connected
    /\ caller' = "ready"
    /\ UNCHANGED <<fvars, unused, dic, sample_queue, peak_queue, self,
                   procs, log_queue, sample_process, todo, calls>>

\* the program calls a method; stop_baseline needs the base_chan that
\* start_baseline sets
Call ==
    /\ caller = "ready"
    /\ calls < MaxCalls
    /\ \E m \in Methods :
          /\ m = stop_baseline => self.base_chan
          /\ todo' = m
    /\ caller' = "busy"
    /\ calls' = calls + 1
    /\ UNCHANGED <<fvars, unused, dic, sample_queue, peak_queue, self,
                   procs, log_queue, sample_process>>

\* the program is at the step `label` of the method it called
At(label) == caller = "busy" /\ todo # <<>> /\ Head(todo) = label

\* the program goes on with the steps rest; with none left the method returns
Go(rest) ==
    /\ todo' = rest
    /\ caller' = IF rest = <<>> THEN "ready" ELSE "busy"

\* a start that never stops what is going on
NeverStopFirst(going, stop, rest) == rest

\* "if self.dic['record']: self.stop_recording()" (mpdev.py 352-353, 396-397)
\* and "if self.dic['pipe'] is not None: self.stop_peak_finding()"
\* (rtp.py 103): the steps to take
StopFirst(going, stop, rest) == IF going THEN stop \o rest ELSE rest

RecordTest ==
    /\ At("record_test")
    /\ Go(StopFirst(dic.record, stop_recording, Tail(todo)))
    /\ UNCHANGED <<fvars, unused, dic, sample_queue, peak_queue, self,
                   procs, log_queue, sample_process, calls>>

\* self.dic['record'] = True (mpdev.py 354)
RecordOn ==
    /\ At("record_on")
    /\ dic' = [dic EXCEPT !.record = TRUE]
    /\ Go(Tail(todo))
    /\ UNCHANGED <<fvars, unused, sample_queue, peak_queue, self, procs,
                   log_queue, sample_process, calls>>

\* self.log_process = rp.Process(...); self.log_process.start()
\* (mpdev.py 361-367)
LogStart ==
    /\ At("log_start")
    /\ procs' = Append(procs, [name |-> "biopac_log", state |-> "alive"])
    /\ self' = [self EXCEPT !.log_process = Len(procs) + 1]
    /\ Go(Tail(todo))
    /\ UNCHANGED <<fvars, unused, dic, sample_queue, peak_queue, log_queue,
                   sample_process, calls>>

\* self.dic['record'] = False (mpdev.py 372)
RecordOff ==
    /\ At("record_off")
    /\ dic' = [dic EXCEPT !.record = FALSE]
    /\ Go(Tail(todo))
    /\ UNCHANGED <<fvars, unused, sample_queue, peak_queue, self, procs,
                   log_queue, sample_process, calls>>

(* self.log_queue.put('kill'): in BIOPAC only "if self.log_process is not  *)
(* None" (mpdev.py 373-374), in MP150 always (libmpdev.py 110).            *)
LogKill ==
    /\ At("log_kill")
    /\ IF self.class = "BIOPAC" /\ self.log_process = 0
       THEN Go(Tail(Tail(todo))) /\ UNCHANGED log_queue
       ELSE Go(Tail(todo)) /\ log_queue' = Append(log_queue, KillItem)
    /\ UNCHANGED <<fvars, unused, dic, sample_queue, peak_queue, self,
                   procs, sample_process, calls>>

(* self.log_process.join(), and in BIOPAC self.log_process = None          *)
(* (mpdev.py 375-376, libmpdev.py 111).  An MP150 that never recorded has  *)
(* no attribute log_process: AttributeError.                               *)
LogJoin ==
    /\ At("log_join")
    /\ IF self.log_process = -1
       THEN todo' = <<>> /\ caller' = "raised" /\ UNCHANGED self
       ELSE /\ procs[self.log_process].state # "alive"
            /\ self' = [self EXCEPT !.log_process =
                           IF self.class = "BIOPAC" THEN 0 ELSE @]
            /\ Go(Tail(todo))
    /\ UNCHANGED <<fvars, unused, dic, sample_queue, peak_queue, procs,
                   log_queue, sample_process, calls>>

\* self.dic['pipe'] = None (rtp.py 127)
PipeOff ==
    /\ At("pipe_off")
    /\ dic' = [dic EXCEPT !.pipe = <<>>]
    /\ Go(Tail(todo))
    /\ UNCHANGED <<fvars, unused, sample_queue, peak_queue, self, procs,
                   log_queue, sample_process, calls>>

\* "if self.peak_log_process is not None: self.peak_queue.put('kill')"
\* (rtp.py 131-132)
PeakKill ==
    /\ At("peak_kill")
    /\ IF self.peak_log_process = 0
       THEN Go(Tail(Tail(todo))) /\ UNCHANGED peak_queue
       ELSE Go(Tail(todo)) /\ peak_queue' = Append(peak_queue, KillItem)
    /\ UNCHANGED <<fvars, unused, dic, sample_queue, self, procs, log_queue,
                   sample_process, calls>>

\* self.peak_log_process.join(); self.peak_log_process = None
\* (rtp.py 133-134)
PeakJoin ==
    /\ At("peak_join")
    /\ procs[self.peak_log_process].state # "alive"
    /\ self' = [self EXCEPT !.peak_log_process = 0]
    /\ Go(Tail(todo))
    /\ UNCHANGED <<fvars, unused, dic, sample_queue, peak_queue, procs,
                   log_queue, sample_process, calls>>

\* "turn off peak finding if it's currently happening" (rtp.py 103)
PipeTest ==
    /\ At("pipe_test")
    /\ Go(StopFirst(dic.pipe # <<>>, stop_peak_finding, Tail(todo)))
    /\ UNCHANGED <<fvars, unused, dic, sample_queue, peak_queue, self,
                   procs, log_queue, sample_process, calls>>

\* self.dic['pipe'] = np.where(...)[0][0] (rtp.py 107): the first channel
PipeOn ==
    /\ At("pipe_on")
    /\ dic' = [dic EXCEPT !.pipe = <<0>>]
    /\ Go(Tail(todo))
    /\ UNCHANGED <<fvars, unused, sample_queue, peak_queue, self, procs,
                   log_queue, sample_process, calls>>

\* self.peak_log_process = rp.Process(...); .start() (rtp.py 115-119)
PeakStart ==
    /\ At("peak_start")
    /\ procs' = Append(procs, [name |-> "rtp_log", state |-> "alive"])
    /\ self' = [self EXCEPT !.peak_log_process = Len(procs) + 1]
    /\ Go(Tail(todo))
    /\ UNCHANGED <<fvars, unused, dic, sample_queue, peak_queue, log_queue,
                   sample_process, calls>>

\* self.base_chan = ...; self.base_rate = samplerate (rtp.py 153-154)
BaseChan ==
    /\ At("base_chan")
    /\ self' = [self EXCEPT !.base_chan = TRUE]
    /\ Go(Tail(todo))
    /\ UNCHANGED <<fvars, unused, dic, sample_queue, peak_queue, procs,
                   log_queue, sample_process, calls>>

\* self.dic['baseline'] = True (rtp.py 165)
BaselineOn ==
    /\ At("baseline_on")
    /\ dic' = [dic EXCEPT !.baseline = TRUE]
    /\ Go(Tail(todo))
    /\ UNCHANGED <<fvars, unused, sample_queue, peak_queue, self, procs,
                   log_queue, sample_process, calls>>

\* [self.base_chan, self.base_rate]: the first channel and the sample rate
BaselineItem == [kind |-> "baseline", t |-> 0, a |-> SampleRate]

\* self.sample_queue.put([self.base_chan, self.base_rate]) (rtp.py 166)
BaselinePut ==
    /\ At("baseline_put")
    /\ sample_queue' = Append(sample_queue, BaselineItem)
    /\ Go(Tail(todo))
    /\ UNCHANGED <<fvars, unused, dic, peak_queue, self, procs, log_queue,
                   sample_process, calls>>

\* self.sample_queue.put('kill') (rtp.py 174)
FinderKill ==
    /\ At("finder_kill")
    /\ sample_queue' = Append(sample_queue, Kill)
    /\ Go(Tail(todo))
    /\ UNCHANGED <<fvars, unused, dic, peak_queue, self, procs, log_queue,
                   sample_process, calls>>

\* self.peak_process.join() (rtp.py 175)
FinderJoin ==
    /\ At("finder_join")
    /\ pc \in {"done", "raised"}
    /\ Go(Tail(todo))
    /\ UNCHANGED <<fvars, unused, dic, sample_queue, peak_queue, self,
                   procs, log_queue, sample_process, calls>>

\* self.dic['connected'] = False, and the pipe set to None if it is not
\* (mpdev.py 393-395, libmpdev.py 132-133)
Disconnect ==
    /\ At("disconnect")
    /\ dic' = [dic EXCEPT !.connected = FALSE, !.pipe = <<>>]
    /\ Go(Tail(todo))
    /\ UNCHANGED <<fvars, unused, sample_queue, peak_queue, self, procs,
                   log_queue, sample_process, calls>>

\* "if self.dic['record']: self.stop_recording()" (mpdev.py 396-397,
\* libmpdev.py 134)
CloseTest ==
    /\ At("close_test")
    /\ Go(StopFirst(dic.record, stop_recording, Tail(todo)))
    /\ UNCHANGED <<fvars, unused, dic, sample_queue, peak_queue, self,
                   procs, log_queue, sample_process, calls>>

\* self.sample_process.join() (mpdev.py 398, libmpdev.py 136): close returns
SamplerJoin ==
    /\ At("sampler_join")
    /\ sample_process \in {"exited", "raised"}
    /\ todo' = <<>>
    /\ caller' = "closed"
    /\ UNCHANGED <<fvars, unused, dic, sample_queue, peak_queue, self,
                   procs, log_queue, sample_process, calls>>

\* what receive_data returns in a life: the first channel up, then down
LifeData == {<<3, 0>>, <<0, 0>>}

\* what SpecLife leaves to the other specifications, but for reads
unread == <<pauses, logger, written, ret, replay>>

\* where the sampler goes after the test of dic['pipe'] (mpdev.py 252-253,
\* libmpdev.py 218)
AfterPipeTest == IF dic.pipe # <<>> THEN "piping" ELSE "alive"

\* where the sampler goes after the test of dic['record'] (mpdev.py 250,
\* libmpdev.py 216)
AfterRecordTest == IF dic.record THEN "logging" ELSE AfterPipeTest

(* One turn of the sampling loop on data equal to the newest sample        *)
(* (mpdev.py 244-247, libmpdev.py 211-214): nothing is kept of the read.   *)
SampleDuplicate ==
    /\ sample_process = "alive"
    /\ dic.connected
    /\ reads < MaxLifeTicks
    /\ reads' = reads + 1
    /\ UNCHANGED <<fvars, unread, dic, sample_queue, peak_queue, caller,
                   self, procs, log_queue, sample_process, todo, calls>>

(* One turn of the sampling loop on data that differ from the newest       *)
(* sample, up to the test of dic['record'] (mpdev.py 244-250, libmpdev.py  *)
(* 211-216): currtime = dic['newesttime'] + dic['sampletime'].             *)
SampleTurn ==
    /\ sample_process = "alive"
    /\ dic.connected
    /\ reads < MaxLifeTicks
    /\ reads' = reads + 1
    /\ \E data \in LifeData \ {dic.newestsample} :
          dic' = [dic EXCEPT !.newestsample = data,
                             !.newesttime = dic.newesttime + SampleTime]
    /\ sample_process' = AfterRecordTest
    /\ UNCHANGED <<fvars, unread, sample_queue, peak_queue, caller, self,
                   procs, log_queue, todo, calls>>

\* log_queue.put([currtime, data]), then the test of dic['pipe']
\* (mpdev.py 250-253, libmpdev.py 216-218)
SampleLog ==
    /\ sample_process = "logging"
    /\ log_queue' = Append(log_queue, <<dic.newesttime, dic.newestsample>>)
    /\ sample_process' = AfterPipeTest
    /\ UNCHANGED <<fvars, unused, dic, sample_queue, peak_queue, caller,
                   self, procs, todo, calls>>

\* sample_queue.put_nowait([currtime, data[pipe]]) with the first channel
\* piped (mpdev.py 254, libmpdev.py 219)
SamplePipe ==
    /\ sample_process = "piping"
    /\ sample_queue' =
           Append(sample_queue, Sample(dic.newesttime, dic.newestsample[1]))
    /\ sample_process' = "alive"
    /\ UNCHANGED <<fvars, unused, dic, peak_queue, caller, self, procs,
                   log_queue, todo, calls>>

(* The sampling loop ends and the device is shut down (mpdev.py 243, 257);  *)
(* mp150_sample then puts 'kill' on sample_queue (libmpdev.py 211, 223-224). *)
SamplerExit ==
    /\ sample_process = "alive"
    /\ ~dic.connected
    /\ sample_process' = "exited"
    /\ sample_queue' = IF self.class = "MP150"
                       THEN Append(sample_queue, Kill) ELSE sample_queue
    /\ UNCHANGED <<fvars, unused, dic, peak_queue, caller, self, procs,
                   log_queue, todo, calls>>

\* one turn of the loop of biopac_log (mpdev.py 205-210) in a data logger
BiopacLog ==
    /\ log_queue # <<>>
    /\ \E p \in Alive("biopac_log") :
          procs' = IF Head(log_queue) = KillItem
                   THEN [procs EXCEPT ![p].state = "exited"] ELSE procs
    /\ log_queue' = Tail(log_queue)
    /\ UNCHANGED <<fvars, unused, dic, sample_queue, peak_queue, caller,
                   self, sample_process, todo, calls>>

\* one turn of the loop of rtp_log (rtp.py 196-200) in a peak logger
RtpLog ==
    /\ peak_queue # <<>>
    /\ \E p \in Alive("rtp_log") :
          procs' = IF Head(peak_queue) = KillItem
                   THEN [procs EXCEPT ![p].state = "exited"] ELSE procs
    /\ peak_queue' = Tail(peak_queue)
    /\ UNCHANGED <<fvars, unused, dic, sample_queue, caller, self,
                   log_queue, sample_process, todo, calls>>

\* what PeakFinder finds in the baseline recording of a life, if there is one
LifeBaseline ==
    [peaks |-> <<<<5, 3>>, <<15, 3>>>>, troughs |-> <<<<10, 0>>, <<20, 0>>>>]

\* sig = sample_queue.get() at rtp.py 290, with the baseline that
\* get_baseline finds or fails to find
FinderStart ==
    /\ pc = "first_get"
    /\ caller # "constructing"
    /\ sample_queue # <<>>
    /\ \E available \in BOOLEAN :
          FirstGet(Head(sample_queue), get_baseline(available, LifeBaseline))
    /\ sample_queue' = Tail(sample_queue)
    /\ UNCHANGED <<dic, pauses, pvars, xvars>>

NextLife ==
    \/ SetupOK
    \/ SetupFails
    \/ Constructed
    \/ Call
    \/ RecordTest
    \/ RecordOn
    \/ LogStart
    \/ RecordOff
    \/ LogKill
    \/ LogJoin
    \/ PipeOff
    \/ PeakKill
    \/ PeakJoin
    \/ PipeTest
    \/ PipeOn
    \/ PeakStart
    \/ BaseChan
    \/ BaselineOn
    \/ BaselinePut
    \/ FinderKill
    \/ FinderJoin
    \/ Disconnect
    \/ CloseTest
    \/ SamplerJoin
    \/ SampleDuplicate
    \/ SampleTurn
    \/ SampleLog
    \/ SamplePipe
    \/ SamplerExit
    \/ BiopacLog
    \/ RtpLog
    \/ FinderStart
    \/ FinderLive
    \/ FinderLoop

SpecLife == InitLife /\ [][NextLife]_vars

\* a step of the method the program called
CallerStep ==
    \/ RecordTest \/ RecordOn \/ LogStart \/ RecordOff \/ LogKill \/ LogJoin
    \/ PipeOff \/ PeakKill \/ PeakJoin \/ PipeTest \/ PipeOn \/ PeakStart
    \/ BaseChan \/ BaselineOn \/ BaselinePut \/ FinderKill \/ FinderJoin
    \/ Disconnect \/ CloseTest \/ SamplerJoin

\* rtp_finder can take a step: sample_queue.get() (rtp.py 290, 297, 313)
\* has an item to return
FinderCanStep ==
    /\ pc \in {"first_get", "live_get", "loop"}
    /\ pc = "first_get" => caller # "constructing"
    /\ sample_queue # <<>>

\* rtp_finder takes a step: every one takes the head of sample_queue
FinderTakes == sample_queue # <<>> /\ sample_queue' = Tail(sample_queue)

(* Fair scheduling: every process that can take a step takes one in the    *)
(* end.  The device need not deliver a sample and the program need not     *)
(* call another method.  The last conjunct is weak fairness of rtp_finder, *)
(* WF_vars(FinderStart \/ FinderLive \/ FinderLoop), written out.          *)
SpecLifeFair ==
    /\ SpecLife
    /\ WF_vars(SetupOK \/ SetupFails)
    /\ WF_vars(Constructed)
    /\ WF_vars(CallerStep)
    /\ WF_vars(SampleLog \/ SamplePipe)
    /\ WF_vars(SamplerExit)
    /\ WF_vars(BiopacLog)
    /\ WF_vars(RtpLog)
    /\ ([]<>~FinderCanStep \/ []<><<FinderTakes>>_vars)

\* a method has returned, close included
Returned == caller \in {"ready", "closed"}

\* the step starts a process of that name
Starts(name) ==
    /\ Len(procs') = Len(procs) + 1
    /\ procs'[Len(procs')].name = name

(* C21: for a BIOPAC, whatever methods are called, at most one data logger *)
(* is alive at any time, a data logger is started only when none is alive  *)
(* (a start while recording has stopped the previous one), and when a      *)
(* method has returned dic['record'] is True exactly when a data logger is *)
(* alive.                                                                  *)
C21_OneDataLogger ==
    /\ [](self.class = "BIOPAC" =>
            /\ Cardinality(Alive("biopac_log")) <= 1
            /\ Returned => (dic.record <=> Alive("biopac_log") # {}))
    /\ [][self.class = "BIOPAC" /\ Starts("biopac_log") =>
            Alive("biopac_log") = {}]_vars

\* a second recording was started while the first was going on: the first
\* data logger has ended and the second is alive
C21_Witness ==
    /\ self.class = "BIOPAC"
    /\ caller = "ready"
    /\ calls = 2
    /\ Len(procs) = 2
    /\ procs[1] = [name |-> "biopac_log", state |-> "exited"]
    /\ procs[2] = [name |-> "biopac_log", state |-> "alive"]
    /\ dic.record

(* C22: at most one peak logger is alive at any time, a peak logger is     *)
(* started only when none is alive (start_peak_finding while peak finding  *)
(* is going on has stopped the running one), and when a method has         *)
(* returned dic['pipe'] is set exactly when a peak logger is alive.        *)
C22_OnePeakLogger ==
    /\ [](/\ Cardinality(Alive("rtp_log")) <= 1
          /\ Returned => (dic.pipe # <<>> <=> Alive("rtp_log") # {}))
    /\ [][Starts("rtp_log") => Alive("rtp_log") = {}]_vars

\* start_peak_finding was called twice: the first peak logger has ended
\* and the second is alive
C22_Witness ==
    /\ caller = "ready"
    /\ calls = 2
    /\ Cardinality({p \in 1..Len(procs) :
                      procs[p] = [name |-> "rtp_log", state |-> "exited"]}) = 1
    /\ Cardinality(Alive("rtp_log")) = 1
    /\ dic.pipe # <<>>

\* close() has been called and has not returned
Closing == caller = "busy" /\ Last(todo) = "sampler_join"

\* no data logger, no peak logger, no rtp_finder and no sampler is running
NoWorkerRunning ==
    /\ Alive("biopac_log") = {}
    /\ Alive("rtp_log") = {}
    /\ pc \in {"done", "raised"}
    /\ sample_process \in {"exited", "raised"}

(* C23: under fair scheduling close() returns and leaves no worker         *)
(* running, whatever state the object was in when close() was called.      *)
C23_CloseReturnsAndLeavesNoWorker ==
    Closing ~> (caller = "closed" /\ NoWorkerRunning)

(* C24: an exception raised by the target of a Process (here the sampler,  *)
(* in setup_biopac) is raised in the parent, so the constructor does not   *)
(* wait forever for dic['connected'].                                      *)
C24_SetupFailureReachesParent ==
    (sample_process = "raised") ~> (caller # "constructing")

\* the sampler is about to forward a sample to rtp_finder
Forwarding == sample_process = "piping"

(* C34: the timestamp the sampler attaches to a forwarded sample is the    *)
(* sample interval times the number of samples read from the device so     *)
(* far, the reads dropped as duplicates included.                          *)
C34_TimestampCountsReads ==
    Forwarding => dic.newesttime = reads * SampleTime

\* an item of sample_queue is a sample or the kill sentinel
SampleOrKill(i) == i.kind \in {"data", "kill"}

(* C35: every item the main loop of rtp_finder reads is a sample or the    *)
(* kill sentinel, and whenever dic['baseline'] is set while the loop runs, *)
(* which is what lets it take its reset-to-baseline branch, a baseline was *)
(* loaded by that loop at start-up.                                        *)
C35_BaselineLoadedBeforeLoop ==
    /\ [][pc = "loop" /\ FinderTakes => SampleOrKill(Head(sample_queue))]_vars
    /\ [](pc = "loop" /\ dic.baseline => out.bound)

\* the samples of a peak-finding run that wait on sample_queue
RunSamples == {k \in 1..Len(sample_queue) : sample_queue[k].kind = "data"}

\* the events that wait on the output queue
RunEvents == {k \in 1..Len(peak_queue) : peak_queue[k] # KillItem}

\* the step in which a call of stop_peak_finding() returns
StopPeakFindingReturns ==
    /\ caller = "busy"
    /\ \/ todo = <<"peak_join">>
       \/ todo = <<"peak_kill">> /\ self.peak_log_process = 0
    /\ caller' = "ready"

(* C36: when stop_peak_finding() returns, no sample of the run waits on    *)
(* the sample queue and no event of the run waits on the output queue.     *)
C36_NothingLeftOfTheRun ==
    [][StopPeakFindingReturns => RunSamples' = {} /\ RunEvents' = {}]_vars

\* the step in which a call of stop_recording() returns, made by the program
\* or by another method
StopRecordingReturns ==
    \/ At("log_join") /\ todo' = Tail(todo) /\ caller' # "raised"
    \/ At("log_kill") /\ todo' = Tail(Tail(todo))

(* C37: when stop_recording() of a BIOPAC returns, the data-log queue is   *)
(* empty.                                                                  *)
C37_LogQueueEmptyOnReturn ==
    [][self.class = "BIOPAC" /\ StopRecordingReturns =>
          log_queue' = <<>>]_vars

(* C38: with the recording methods of MP150, a kill sentinel is on the     *)
(* data-log queue only while a data logger is alive to consume it.         *)
C38_NoStaleSentinel ==
    self.class = "MP150" =>
        ((\E k \in 1..Len(log_queue) : log_queue[k] = KillItem) =>
             Alive("biopac_log") # {})

====
